---- MODULE Spec2Model ----
(***************************************************************************)
(* The ReAct agent loop of src/agent (Agent.run, Agent._execute_tool,      *)
(* Agent._extract_sources, ToolRegistry, SearchDocumentsTool) as a state   *)
(* machine.  Python str values are TLA+ strings (Len, \o and SubSeq are    *)
(* the Python len, + and slicing); the oracle (gemini_service), the        *)
(* injected search function and a third-party Tool are the environment:    *)
(* each call to them draws one outcome from a small set.                   *)
(***************************************************************************)
EXTENDS Integers, Sequences, FiniteSets, TLC

VARIABLES
    max_iterations,     \* AgentConfig.max_iterations
    max_result_chars,   \* AgentConfig.max_result_chars
    tools,              \* the argument `tools` of Agent(...) and ToolRegistry(...)
    registry,           \* Agent.registry._tools, in insertion order
    tool_channel_id,    \* SearchDocumentsTool._channel_id
    observations,       \* Agent.observations
    messages,           \* Agent.messages
    is_finished,        \* Agent.is_finished
    final_result,       \* Agent.final_result
    sources_used,       \* Agent.sources_used
    iteration,          \* local of run()
    accumulated_context,\* local of run()
    run_channel,        \* argument channel_id of the run in progress
    run_query,          \* argument query of the run in progress
    pending,            \* local response of run(), between oracle call and tool execution
    pc,                 \* position of run()
    ret,                \* the dict run() returned (meaningful when pc = "returned")
    events,             \* history of the external calls made by the run in progress
    reused,             \* history: the run in progress started on an Agent that held the
                        \* observations, sources, result and flag of an earlier run
    other,              \* the locals of a second thread calling run() on the same Agent,
                        \* while that thread is not the one taking steps
    lookup,             \* the last call of a reading method from outside run()
    caller_history,     \* the conversation_history list of the caller of the last run()
    channels,           \* the channel rows of the database, by gemini_store_id
    capacity_ret,       \* the last call of a CapacityService method and what it returned
    uploads,            \* the upload requests in progress, each with its own session
    policy_config,      \* LifecyclePolicy.config
    policy_channel,     \* the channel a LifecyclePolicy.get_status call is given
    policy_now,         \* datetime.now(UTC) in that call, in hours
    policy_status,      \* the LifecycleStatus the call returned
    endpoints,          \* ApiMetricsService._endpoints
    gemini_api_calls,   \* ApiMetricsService._gemini_api_calls
    lock,               \* ApiMetricsService._lock: the thread holding it
    callers,            \* the threads calling ApiMetricsService, each with its position
    recorded,           \* history: the record_call calls completed since the last reset
    job_history,        \* SchedulerService._job_history
    history_ret,        \* the last get_job_history call and what it returned
    fired,              \* history: the number of job events delivered so far
    chat_cache,         \* CacheService._chat_cache, by key
    document_cache,     \* CacheService._document_cache, by channel id
    channel_cache,      \* CacheService._channel_cache, by channel id
    store_cache,        \* CacheService._store_cache
    cache_stats,        \* CacheService._stats
    cache_ret,          \* the last call of a CacheService method and what it returned
    instance,           \* the module globals _cache_service, _scheduler_instance and
                        \* _metrics_instance, by getter: the instance held, 0 for None
    made,               \* the number of instances constructed so far, by getter
    getters,            \* the threads calling the getters, each with its position
    handed              \* history: the instances each getter has returned since the
                        \* last reset of its global

vars == <<max_iterations, max_result_chars, tools, registry, tool_channel_id,
          observations, messages, is_finished, final_result, sources_used, iteration,
          accumulated_context, run_channel, run_query, pending, pc, ret, events,
          reused, other, lookup, caller_history, channels, capacity_ret, uploads, policy_config,
          policy_channel, policy_now, policy_status, endpoints, gemini_api_calls, lock,
          callers, recorded, job_history, history_ret, fired, chat_cache,
          document_cache, channel_cache, store_cache, cache_stats, cache_ret, instance,
          made, getters, handed>>

config == <<max_iterations, max_result_chars, tools, registry>>

\* the state of the services
capacity == <<channels, capacity_ret, uploads>>
lifecycle == <<policy_config, policy_channel, policy_now, policy_status>>
metrics == <<endpoints, gemini_api_calls, lock, callers, recorded>>
scheduler == <<job_history, history_ret, fired>>
cache == <<chat_cache, document_cache, channel_cache, store_cache, cache_stats, cache_ret>>
singletons == <<instance, made, getters, handed>>

\* the state outside the Agent, which run() does not touch
outside == <<lookup, caller_history, capacity, lifecycle, metrics, scheduler, cache,
             singletons>>

----------------------------------------------------------------------------
(* Bounds of the model *)

MaxIter == 2                \* largest max_iterations explored
MaxResultCharsSmall == 45   \* a max_result_chars that cuts a two-source search output
MaxResultCharsLarge == 100  \* a max_result_chars no search output of the model exceeds

----------------------------------------------------------------------------
(* Python values *)

\* Python None, where a str is expected
None == "<None>"

\* bool(x) is False for None and for the empty str
Falsy(x) == x = None \/ x = ""

\* the empty dict {}
EmptyDict == [k \in {} |-> ""]

\* dict.get(k, default)
DictGet(d, k, default) == IF k \in DOMAIN d THEN d[k] ELSE default

\* d[key] = value on a dict kept as a function of its keys
Put(d, key, value) ==
    [k \in DOMAIN d \cup {key} |-> IF k = key THEN value ELSE d[k]]

\* s[:n] for n >= 0
Prefix(s, n) == IF n >= Len(s) THEN s ELSE SubSeq(s, 1, n)

\* s[i] as a one-character string (1-based)
CharAt(s, i) == SubSeq(s, i, i)

\* s.startswith(p, i-1), for a non-empty p
StartsWithAt(s, p, i) ==
    /\ i + Len(p) - 1 <= Len(s)
    /\ SubSeq(s, i, i) = SubSeq(p, 1, 1)
    /\ SubSeq(s, i, i + Len(p) - 1) = p

RECURSIVE Pad(_)
\* a text of n characters
Pad(n) == IF n <= 0 THEN "" ELSE "x" \o Pad(n - 1)

----------------------------------------------------------------------------
(* Tools and the registry *)

\* the tool instances an Agent may be constructed with: the two built-in tools and
\* one third-party implementation of the abstract Tool
SearchTool == [name |-> "search_documents", kind |-> "search"]
FinishTool == [name |-> "finish", kind |-> "finish"]
CustomTool == [name |-> "custom", kind |-> "custom"]

\* the tool lists given to Agent(...)
ToolLists == {<<SearchTool, FinishTool>>, <<SearchTool, FinishTool, CustomTool>>}

\* position of the key `name` in the dict d (a sequence of entries), 0 if absent
RECURSIVE KeyIndex(_, _, _)
KeyIndex(d, name, i) ==
    IF i > Len(d) THEN 0
    ELSE IF d[i].key = name THEN i
    ELSE KeyIndex(d, name, i + 1)

\* DictSet that keeps the value a key already has
DictSetFirstWins(d, key, value) ==
    LET i == KeyIndex(d, key, 1)
    IN IF i = 0 THEN Append(d, [key |-> key, value |-> value])
       ELSE d

\* d[key] = value on an insertion-ordered dict
DictSet(d, key, value) ==
    LET i == KeyIndex(d, key, 1)
    IN IF i = 0 THEN Append(d, [key |-> key, value |-> value])
       ELSE [d EXCEPT ![i] = [key |-> key, value |-> value]]

\* ToolRegistry.__init__: for tool in tools: self._tools[tool.name] = tool
RECURSIVE RegistryInit(_, _)
RegistryInit(tool_list, d) ==
    IF tool_list = <<>> THEN d
    ELSE RegistryInit(Tail(tool_list), DictSet(d, Head(tool_list).name, Head(tool_list)))

\* ToolRegistry.get: the tool, or NoTool for Python None
NoTool == [name |-> None, kind |-> "none"]
RegistryGet(reg, name) ==
    LET i == KeyIndex(reg, name, 1)
    IN IF i = 0 THEN NoTool ELSE reg[i].value

\* ToolRegistry.list_names
ListNames(reg) == [i \in 1..Len(reg) |-> reg[i].key]

\* ToolRegistry.get_all
GetAll(reg) == [i \in 1..Len(reg) |-> reg[i].value]

\* Tool.to_gemini_format (description and parameters abridged to the tool's kind)
ToGeminiFormat(tool) ==
    [name |-> tool.name, description |-> tool.kind, parameters |-> tool.kind]

\* ToolRegistry.get_all_for_gemini
GetAllForGemini(reg) == [i \in 1..Len(reg) |-> ToGeminiFormat(reg[i].value)]

\* str(list_of_str): "['a', 'b']"
RECURSIVE ReprItems(_)
ReprItems(names) ==
    IF names = <<>> THEN ""
    ELSE IF Len(names) = 1 THEN "'" \o names[1] \o "'"
    ELSE "'" \o names[1] \o "', " \o ReprItems(Tail(names))
ListRepr(names) == "[" \o ReprItems(names) \o "]"

\* ToolResult(success, output, error)
ToolResult(success, output, error) ==
    [success |-> success, output |-> output, error |-> error]

----------------------------------------------------------------------------
(* SearchDocumentsTool.execute *)

\* the grounding sources the search function can return
SourceLists ==
    LET SrcA == [source |-> "a", content |-> "x"]
        SrcB == [source |-> "b", content |-> "y"]
    IN  {<<>>, <<SrcA>>, <<SrcB, SrcA>>, <<SrcA, SrcA>>}

\* what one call of the injected search_fn(channel_id, query) does
SearchFnOutcomes ==
    {[kind |-> "raise", message |-> "boom"],
     [kind |-> "malformed", message |-> "argument of type 'NoneType' is not iterable"],
     [kind |-> "result", error |-> "quota", sources |-> <<>>]}
    \cup {[kind |-> "result", error |-> None, sources |-> l] : l \in SourceLists}

\* f"[Source {i}: {source_name}]\n{content}", joined by "\n\n---\n\n"
RECURSIVE FormatSources(_, _)
FormatSources(sources, i) ==
    IF i > Len(sources) THEN ""
    ELSE (IF i > 1 THEN "\n\n---\n\n" ELSE "")
         \o "[Source " \o ToString(i) \o ": " \o sources[i].source \o "]\n"
         \o sources[i].content
         \o FormatSources(sources, i + 1)

\* the search function was not called
NotCalled == [kind |-> "not called"]

\* what a block of code did: returned a ToolResult, or raised an exception with a
\* message; fn is what the search function did in it, NotCalled if it was not called
Returned(result, fn) == [raised |-> FALSE, message |-> "", result |-> result, fn |-> fn]
Raised(message, fn) ==
    [raised |-> TRUE, message |-> message, result |-> ToolResult(FALSE, "", message),
     fn |-> fn]

\* the try block of SearchDocumentsTool.execute(query), given what search_fn does: a
\* result that is no dict (None) fails at `"error" in result`
SearchTry(channel_id, outcome) ==
    IF Falsy(channel_id)
    THEN Returned(ToolResult(FALSE, "", "Channel ID not set. Cannot perform search."),
                  NotCalled)
    ELSE IF outcome.kind \in {"raise", "malformed"}
    THEN Raised(outcome.message, outcome)
    ELSE IF ~Falsy(outcome.error)
    THEN Returned(ToolResult(FALSE, "", outcome.error), outcome)
    ELSE IF outcome.sources = <<>>
    THEN Returned(ToolResult(TRUE,
            "No relevant documents found for this query. Try a different search query.",
            None), outcome)
    ELSE Returned(ToolResult(TRUE,
            "Found " \o ToString(Len(outcome.sources)) \o " relevant sections:\n\n"
                \o FormatSources(outcome.sources, 1),
            None), outcome)

\* SearchExcept without the handler: the exception leaves execute
SearchExceptMissing(body) == body

\* the except clause of SearchDocumentsTool.execute: an exception of the try block
\* becomes a failed ToolResult
SearchExcept(body) ==
    IF body.raised
    THEN Returned(ToolResult(FALSE, "", "Search failed: " \o body.message), body.fn)
    ELSE body

\* SearchDocumentsTool.execute(query): the ToolResult it returns
SearchExecute(channel_id, outcome) == SearchExcept(SearchTry(channel_id, outcome)).result

\* what one call of a third-party Tool.execute(**kwargs) does: a ToolResult of any
\* shape, or an exception
CustomOutcomes(mrc) ==
    {[kind |-> "raise", result |-> ToolResult(FALSE, "", "raised")],
     [kind |-> "result", result |-> ToolResult(TRUE, Pad(mrc), None)],
     [kind |-> "result", result |-> ToolResult(TRUE, Pad(mrc + 1), None)],
     [kind |-> "result", result |-> ToolResult(FALSE, Pad(mrc + 1), "custom failed")]}

----------------------------------------------------------------------------
(* Agent._execute_tool and Agent._extract_sources *)

\* Truncate with the length test off by one
TruncateAtLimit(result, mrc) ==
    IF result.success /\ Len(result.output) >= mrc
    THEN [result EXCEPT !.output =
            Prefix(result.output, mrc)
            \o "\n\n...(truncated, " \o ToString(Len(result.output)) \o " total chars)"]
    ELSE result

\* the truncation step of _execute_tool
Truncate(result, mrc) ==
    IF result.success /\ Len(result.output) > mrc
    THEN [result EXCEPT !.output =
            Prefix(result.output, mrc)
            \o "\n\n...(truncated, " \o ToString(Len(result.output)) \o " total chars)"]
    ELSE result

\* UnknownTool with the message as the output of the failed result
UnknownToolAsOutput(reg, tool_name) ==
    ToolResult(FALSE,
        "Unknown tool: " \o tool_name \o ". Available: " \o ListRepr(ListNames(reg)),
        None)

\* the synthetic result of _execute_tool for a name the registry does not hold
UnknownTool(reg, tool_name) ==
    ToolResult(FALSE, "",
        "Unknown tool: " \o tool_name \o ". Available: " \o ListRepr(ListNames(reg)))

Digits == {"0", "1", "2", "3", "4", "5", "6", "7", "8", "9"}

\* end of the run of digits starting at i (i itself if there is none)
RECURSIVE SkipDigits(_, _)
SkipDigits(s, i) ==
    IF i <= Len(s) /\ CharAt(s, i) \in Digits THEN SkipDigits(s, i + 1) ELSE i

\* end of the run of characters other than "]" starting at i
RECURSIVE SkipName(_, _)
SkipName(s, i) ==
    IF i <= Len(s) /\ CharAt(s, i) # "]" THEN SkipName(s, i + 1) ELSE i

\* re.match(r'\[Source \d+: ([^\]]+)\]', s, i-1): [ok, name, next position]
MatchAt(s, i) ==
    IF ~StartsWithAt(s, "[Source ", i) THEN [ok |-> FALSE, name |-> "", next |-> i + 1]
    ELSE LET d == SkipDigits(s, i + 8)
         IN IF d = i + 8 \/ ~StartsWithAt(s, ": ", d)
            THEN [ok |-> FALSE, name |-> "", next |-> i + 1]
            ELSE LET e == SkipName(s, d + 2)
                 IN IF e = d + 2 \/ e > Len(s)
                    THEN [ok |-> FALSE, name |-> "", next |-> i + 1]
                    ELSE [ok |-> TRUE, name |-> SubSeq(s, d + 2, e - 1), next |-> e + 1]

\* re.findall(pattern, s)
RECURSIVE FindAll(_, _)
FindAll(s, i) ==
    IF i > Len(s) THEN <<>>
    ELSE LET m == MatchAt(s, i)
         IN IF m.ok THEN <<m.name>> \o FindAll(s, m.next) ELSE FindAll(s, m.next)

\* any(s.get("source") == match for s in sources)
HasSource(sources, name) == \E i \in 1..Len(sources) : sources[i].source = name

\* AddSources without the test for an already recorded name
RECURSIVE AddSourcesNoDedup(_, _)
AddSourcesNoDedup(sources, matches) ==
    IF matches = <<>> THEN sources
    ELSE AddSourcesNoDedup(
            Append(sources, [source |-> Head(matches), content |-> ""]),
            Tail(matches))

\* the loop of _extract_sources over the matches
RECURSIVE AddSources(_, _)
AddSources(sources, matches) ==
    IF matches = <<>> THEN sources
    ELSE AddSources(
            IF HasSource(sources, Head(matches)) THEN sources
            ELSE Append(sources, [source |-> Head(matches), content |-> ""]),
            Tail(matches))

\* Agent._extract_sources(search_output): the new value of sources_used
ExtractSources(sources, search_output) ==
    AddSources(sources, FindAll(search_output, 1))

----------------------------------------------------------------------------
(* The oracle: gemini_service.call_with_tools and gemini_service.generate *)

\* the argument objects of a finish call
FinishArgs ==
    {[answer |-> "X"], [answer |-> ""], EmptyDict,
     [answer |-> "X", sources_used |-> <<"a">>],
     [answer |-> "X", sources_used |-> <<"b", "b">>]}

\* the tool calls the oracle may request
ToolCalls ==
    {[name |-> "finish", args |-> a] : a \in FinishArgs}
    \cup {[name |-> "search_documents", args |-> [query |-> "q"]],
          [name |-> "search_documents", args |-> EmptyDict],
          [name |-> "custom", args |-> EmptyDict],
          [name |-> "bogus", args |-> EmptyDict]}

\* the dicts call_with_tools may return
ResponseDicts ==
    {[text |-> "Paris is the capital of France."], [text |-> ""], EmptyDict}
    \cup {[tool_call |-> c] : c \in ToolCalls}

\* what one call of call_with_tools does: raise, return None, return something that is
\* no dict, or return a dict
OracleOutcomes ==
    {[kind |-> "raise"], [kind |-> "none"], [kind |-> "malformed"]}
    \cup {[kind |-> "dict", dict |-> d] : d \in ResponseDicts}

\* what one call of generate does
GenerateOutcomes ==
    {[kind |-> "raise", message |-> "quota"], [kind |-> "none"],
     [kind |-> "dict", dict |-> [text |-> "G"]],
     [kind |-> "dict", dict |-> [text |-> ""]],
     [kind |-> "dict", dict |-> [text |-> None]],
     [kind |-> "dict", dict |-> EmptyDict]}

\* the system prompt (abridged)
SystemPrompt == "You are a document analysis assistant."

\* the rendering of one prior result in _call_llm_with_tools
ResultPreview(result, mrc) ==
    IF Len(result) > mrc
    THEN Prefix(result, mrc) \o "\n...(truncated, " \o ToString(Len(result)) \o " total chars)"
    ELSE Prefix(result, mrc)

\* the prompt _call_llm_with_tools assembles: the system prompt, the question and one
\* rendered entry per prior action
BuildPrompt(query, context, mrc) ==
    [system |-> SystemPrompt,
     question |-> query,
     actions |-> [i \in 1..Len(context) |->
                    [tool |-> context[i].tool,
                     input |-> context[i].input,
                     result |-> ResultPreview(context[i].result, mrc)]]]

\* Agent._call_llm_with_tools: the response, None for an exception or a None result
CallLlmWithTools(outcome) ==
    IF outcome.kind = "raise" THEN [kind |-> "none"] ELSE outcome

\* the results _generate_forced_answer puts in its prompt: those of search_documents
RECURSIVE SearchResults(_)
SearchResults(context) ==
    IF context = <<>> THEN <<>>
    ELSE (IF Head(context).tool = "search_documents" THEN <<Head(context).result>> ELSE <<>>)
         \o SearchResults(Tail(context))

\* Agent._generate_forced_answer: its return value, given what generate does
GenerateForcedAnswer(outcome) ==
    IF outcome.kind = "raise" THEN "Failed to generate answer: " \o outcome.message
    ELSE IF outcome.kind = "none"
    THEN "Failed to generate answer: 'NoneType' object has no attribute 'get'"
    ELSE DictGet(outcome.dict, "text", "Unable to generate answer.")

----------------------------------------------------------------------------
(* Agent.run *)

Channels == {"chA", ""}
Queries == {"q0"}
Histories == {<<>>}

NoRet == [response |-> None, sources |-> <<>>, iterations |-> 0]

\* one entry of the history of external calls
Event(ev, k, what, prompt, out) ==
    [ev |-> ev, k |-> k, what |-> what, prompt |-> prompt, out |-> out]

\* the branch run() takes on what call_with_tools did
ResponseClass(outcome) ==
    IF outcome.kind # "dict" THEN outcome.kind
    ELSE IF "tool_call" \notin DOMAIN outcome.dict THEN "text"
    ELSE IF outcome.dict.tool_call.name = "finish" THEN "finish"
    ELSE "tool"

\* FinishAnswer without the default for an absent answer
FinishAnswerNoDefault(tool_input) == DictGet(tool_input, "answer", None)

\* tool_input.get("answer", "Task completed.")
FinishAnswer(tool_input) == DictGet(tool_input, "answer", "Task completed.")

\* TextAnswer that drops the text the oracle returned
TextAnswerDropped(response) == "No response generated."

\* response.get("text", "No response generated.")
TextAnswer(response) == DictGet(response, "text", "No response generated.")

\* LoopTest with the bound tested one pass late
LoopTestOffByOne(it) == IF it <= max_iterations THEN "loop" ELSE "after"

\* the while test of run(): where control goes with `it` iterations done
LoopTest(it) == IF it < max_iterations THEN "loop" ELSE "after"

\* the locals of a thread that has not called run()
IdleLocals ==
    [iteration |-> 0, accumulated_context |-> <<>>, run_channel |-> None,
     run_query |-> None, pending |-> EmptyDict, pc |-> "idle", ret |-> NoRet,
     events |-> <<>>, reused |-> FALSE]

\* no call has been made
NoCall == [op |-> "none"]

\* a process in which no service other than `used` has been constructed or called
ServicesAtRest(used) ==
    /\ used # "capacity" =>
            channels = EmptyDict /\ capacity_ret = NoCall /\ uploads = <<>>
    /\ used # "lifecycle" =>
            /\ policy_config = NoCall
            /\ policy_channel = NoCall
            /\ policy_now = 0
            /\ policy_status = NoCall
    /\ used # "metrics" =>
            /\ endpoints = EmptyDict
            /\ gemini_api_calls = 0
            /\ lock = 0
            /\ callers = <<>>
            /\ recorded = EmptyDict
    /\ used # "scheduler" =>
            job_history = <<>> /\ history_ret = NoCall /\ fired = 0
    /\ used # "cache" =>
            /\ chat_cache = EmptyDict
            /\ document_cache = EmptyDict
            /\ channel_cache = EmptyDict
            /\ store_cache = EmptyDict
            /\ cache_stats = EmptyDict
            /\ cache_ret = NoCall
    /\ used # "singletons" =>
            instance = EmptyDict /\ made = EmptyDict /\ getters = <<>> /\ handed = EmptyDict

\* no ToolRegistry method has been called from outside run()
NoLookup == [op |-> "none", arg |-> None, result |-> <<>>]

\* the fields of a new Agent and its tools, and the threads that may call it
NewAgent ==
    /\ registry = RegistryInit(tools, <<>>)
    /\ tool_channel_id = None
    /\ observations = <<>>
    /\ messages = <<>>
    /\ is_finished = FALSE
    /\ final_result = None
    /\ sources_used = <<>>
    /\ iteration = 0
    /\ accumulated_context = <<>>
    /\ run_channel = None
    /\ run_query = None
    /\ pending = EmptyDict
    /\ pc = "idle"
    /\ ret = NoRet
    /\ events = <<>>
    /\ reused = FALSE
    /\ other = IdleLocals
    /\ lookup = NoLookup
    /\ caller_history = <<>>

\* Agent.__init__ and SearchDocumentsTool.__init__
Init ==
    /\ max_iterations \in (-1)..MaxIter
    /\ max_result_chars \in {MaxResultCharsSmall, MaxResultCharsLarge}
    /\ tools \in ToolLists
    /\ NewAgent
    /\ ServicesAtRest("agent")

\* BuildMessages that appends the user message to the list of the caller
BuildMessagesInPlace(conversation_history, query) ==
    [messages |-> conversation_history \o <<[role |-> "user", content |-> query]>>,
     conversation_history |->
        conversation_history \o <<[role |-> "user", content |-> query]>>]

\* run(): `self.messages = []`, extended by a non-empty conversation_history, and the
\* user message appended; with the list of the caller as the statements leave it
BuildMessages(conversation_history, query) ==
    [messages |-> (IF conversation_history # <<>> THEN conversation_history ELSE <<>>)
                    \o <<[role |-> "user", content |-> query]>>,
     conversation_history |-> conversation_history]

\* run(): from entry to the first test of the while loop
RunStart(channel_id, query, conversation_history) ==
    /\ pc \in {"idle", "returned", "raised"}
    /\ observations' = <<>>
    /\ is_finished' = FALSE
    /\ final_result' = None
    /\ sources_used' = <<>>
    /\ LET built == BuildMessages(conversation_history, query)
       IN  /\ messages' = built.messages
           /\ caller_history' = built.conversation_history
    /\ iteration' = 0
    /\ accumulated_context' = <<>>
    /\ run_channel' = channel_id
    /\ run_query' = query
    /\ pending' = EmptyDict
    /\ ret' = NoRet
    /\ events' = <<>>
    /\ reused' = (observations # <<>> /\ sources_used # <<>> /\ final_result # None
                  /\ is_finished /\ tool_channel_id # None)
    /\ pc' = LoopTest(0)
    /\ UNCHANGED <<config, tool_channel_id, other, lookup, capacity, lifecycle, metrics,
                   scheduler, cache, singletons>>

\* the sources a finish call adds to sources_used
FinishSources(sources, tool_input) ==
    IF "sources_used" \in DOMAIN tool_input
    THEN sources \o [i \in 1..Len(tool_input.sources_used) |->
                        [source |-> tool_input.sources_used[i], content |-> ""]]
    ELSE sources

\* run(): one pass of the loop from `iteration += 1` through the oracle call to the
\* branch on the response
Think(outcome) ==
    /\ pc = "loop"
    /\ iteration' = iteration + 1
    /\ events' = Append(events,
            Event("call_with_tools", iteration + 1, ResponseClass(outcome),
                  BuildPrompt(run_query, accumulated_context, max_result_chars), outcome))
    /\ LET response == CallLlmWithTools(outcome)
       IN  IF response.kind = "none"
           THEN /\ final_result' = "Failed to get response from AI."
                /\ pc' = "after"
                /\ UNCHANGED <<is_finished, sources_used, pending>>
           ELSE IF response.kind = "malformed"
           THEN /\ pc' = "raised"
                /\ UNCHANGED <<final_result, is_finished, sources_used, pending>>
           ELSE IF "tool_call" \notin DOMAIN response.dict
           THEN /\ final_result' = TextAnswer(response.dict)
                /\ is_finished' = TRUE
                /\ pc' = "after"
                /\ UNCHANGED <<sources_used, pending>>
           ELSE IF response.dict.tool_call.name = "finish"
           THEN /\ is_finished' = TRUE
                /\ final_result' = FinishAnswer(response.dict.tool_call.args)
                /\ sources_used' = FinishSources(sources_used, response.dict.tool_call.args)
                /\ pc' = "after"
                /\ UNCHANGED pending
           ELSE /\ pending' = response.dict
                /\ pc' = "act"
                /\ UNCHANGED <<final_result, is_finished, sources_used>>
    /\ UNCHANGED <<config, tool_channel_id, observations, messages, accumulated_context,
                   run_channel, run_query, ret, reused, other, outside>>

\* tool.execute(**tool_input): the set of things the call can do, each either an
\* exception leaving execute or a ToolResult
ToolExecute(tool, tool_input, channel_id, mrc) ==
    IF tool.kind = "search"
    THEN IF DOMAIN tool_input # {"query"}
         THEN {Raised("TypeError", NotCalled)}
         ELSE {SearchExcept(SearchTry(channel_id, o)) : o \in SearchFnOutcomes}
    ELSE IF tool.kind = "finish"
    THEN IF "answer" \notin DOMAIN tool_input
         THEN {Raised("TypeError", NotCalled)}
         ELSE {Returned(ToolResult(TRUE, tool_input.answer, None), NotCalled)}
    ELSE {[raised |-> o.kind = "raise", message |-> "", result |-> o.result,
           fn |-> NotCalled] : o \in CustomOutcomes(mrc)}

\* Agent._execute_tool: the set of its outcomes, each an exception or the ToolResult
\* it returns (result), with the ToolResult the tool itself returned (raw), what the
\* search function did (fn) and the channel it was called on (channel)
ExecuteTool(reg, tool_name, tool_input, channel_id, mrc) ==
    LET tool == RegistryGet(reg, tool_name)
    IN  IF tool = NoTool
        THEN {[raised |-> FALSE, raw |-> UnknownTool(reg, tool_name),
               result |-> UnknownTool(reg, tool_name), fn |-> NotCalled,
               channel |-> None]}
        ELSE {[raised |-> o.raised, raw |-> o.result, result |-> Truncate(o.result, mrc),
               fn |-> o.fn, channel |-> IF o.fn = NotCalled THEN None ELSE channel_id] :
                    o \in ToolExecute(tool, tool_input, channel_id, mrc)}

\* ContextEntry that renders a failed result by its (empty) output
ContextEntryOutputOnly(tool_name, tool_input, result) ==
    [tool |-> tool_name, input |-> tool_input, result |-> result.output]

\* the entry run() appends to accumulated_context
ContextEntry(tool_name, tool_input, result) ==
    [tool |-> tool_name,
     input |-> tool_input,
     result |-> IF result.success THEN result.output ELSE "Error: " \o result.error]

\* SetChannelId that keeps a channel id the tool already holds
SetChannelIdIfUnset(tool, current, channel_id) ==
    IF tool.kind = "search" /\ current = None THEN channel_id ELSE current

\* _execute_tool: `if hasattr(tool, 'set_channel_id'): tool.set_channel_id(channel_id)`,
\* the new value of SearchDocumentsTool._channel_id
SetChannelId(tool, current, channel_id) ==
    IF tool.kind = "search" THEN channel_id ELSE current

\* Observe that records the successful executions only
ObserveSuccessOnly(obs, observation) ==
    IF observation.result.success THEN Append(obs, observation) ELSE obs

\* run(): `self.observations.append(obs)`
Observe(obs, observation) == Append(obs, observation)

\* _execute_tool from `result = tool.execute(**tool_input)` on, with the tool holding
\* channel_id, and the rest of the pass of the loop in run(): observation, context,
\* source extraction, and the next test of the while loop
Execute(channel_id) ==
    LET tool_name == pending.tool_call.name
        tool_input == pending.tool_call.args
    IN  /\ \E o \in ExecuteTool(registry, tool_name, tool_input, channel_id,
                                max_result_chars) :
             /\ events' = Append(events,
                     Event("execute", iteration, tool_name, tool_input, o))
             /\ IF o.raised
                THEN /\ pc' = "raised"
                     /\ UNCHANGED <<observations, accumulated_context, sources_used>>
                ELSE /\ observations' = Observe(observations,
                            [thinking |-> DictGet(pending, "thinking", None),
                             tool_name |-> tool_name,
                             tool_input |-> tool_input,
                             result |-> o.result])
                     /\ accumulated_context' = Append(accumulated_context,
                            ContextEntry(tool_name, tool_input, o.result))
                     /\ sources_used' =
                            IF tool_name = "search_documents" /\ o.result.success
                            THEN ExtractSources(sources_used, o.result.output)
                            ELSE sources_used
                     /\ pc' = LoopTest(iteration)
        /\ pending' = EmptyDict
        /\ UNCHANGED <<config, messages, is_finished, final_result, iteration,
                       run_channel, run_query, ret, reused, other, outside>>

\* run(): the rest of a pass of the loop, _execute_tool taken as one step
Act ==
    /\ pc = "act"
    /\ tool_channel_id' = SetChannelId(RegistryGet(registry, pending.tool_call.name),
                                       tool_channel_id, run_channel)
    /\ Execute(tool_channel_id')

\* the test after the loop: max_iterations reached without finish
NeedsForcedAnswer == iteration >= max_iterations /\ ~is_finished

\* run(): the forced answer after the loop
ForcedAnswer(outcome) ==
    /\ pc = "after"
    /\ NeedsForcedAnswer
    /\ final_result' = GenerateForcedAnswer(outcome)
    /\ events' = Append(events,
            Event("generate", iteration, outcome.kind,
                  [question |-> run_query, results |-> SearchResults(accumulated_context)],
                  outcome))
    /\ pc' = "return"
    /\ UNCHANGED <<config, tool_channel_id, observations, messages, is_finished,
                   sources_used, iteration, accumulated_context, run_channel, run_query,
                   pending, ret, reused, other, outside>>

\* ReturnValue without the fallback literal
ReturnValueNoFallback ==
    [response |-> final_result, sources |-> sources_used, iterations |-> iteration]

\* the dict run() returns
ReturnValue ==
    [response |-> IF Falsy(final_result) THEN "No response generated." ELSE final_result,
     sources |-> sources_used,
     iterations |-> iteration]

\* run(): the return statement
Return ==
    /\ \/ pc = "return"
       \/ pc = "after" /\ ~NeedsForcedAnswer
    /\ ret' = ReturnValue
    /\ pc' = "returned"
    /\ UNCHANGED <<config, tool_channel_id, observations, messages, is_finished,
                   final_result, sources_used, iteration, accumulated_context,
                   run_channel, run_query, pending, events, reused, other,
                   outside>>

Next ==
    \/ \E c \in Channels, q \in Queries, h \in Histories : RunStart(c, q, h)
    \/ \E o \in OracleOutcomes : Think(o)
    \/ Act
    \/ \E o \in GenerateOutcomes : ForcedAnswer(o)
    \/ Return

Spec == Init /\ [][Next]_vars

----------------------------------------------------------------------------
(* Two threads calling run() on one Agent *)

\* the fields of the Agent and of its tools, which every thread reads and writes
shared == <<config, tool_channel_id, observations, messages, is_finished, final_result,
            sources_used>>

\* the parameters and locals of run() in the thread taking steps
locals == <<iteration, accumulated_context, run_channel, run_query, pending, pc, ret,
            events, reused>>

\* the locals of the thread taking steps, as a record
Locals ==
    [iteration |-> iteration, accumulated_context |-> accumulated_context,
     run_channel |-> run_channel, run_query |-> run_query, pending |-> pending,
     pc |-> pc, ret |-> ret, events |-> events, reused |-> reused]

\* Switch with `iteration` kept across the switch, as if it were a field of the Agent
SwitchSharingIteration ==
    /\ other' = Locals
    /\ accumulated_context' = other.accumulated_context
    /\ run_channel' = other.run_channel
    /\ run_query' = other.run_query
    /\ pending' = other.pending
    /\ pc' = other.pc
    /\ ret' = other.ret
    /\ events' = other.events
    /\ reused' = other.reused
    /\ UNCHANGED <<shared, iteration, outside>>

\* the interpreter switches threads: the other thread's locals become the current ones
Switch ==
    /\ other' = Locals
    /\ iteration' = other.iteration
    /\ accumulated_context' = other.accumulated_context
    /\ run_channel' = other.run_channel
    /\ run_query' = other.run_query
    /\ pending' = other.pending
    /\ pc' = other.pc
    /\ ret' = other.ret
    /\ events' = other.events
    /\ reused' = other.reused
    /\ UNCHANGED <<shared, outside>>

\* the largest max_iterations of an Agent shared by two threads
MaxIterShared == 1

\* an Agent with the built-in tools, before either thread has called run()
InitShared ==
    /\ Init
    /\ max_iterations \in 1..MaxIterShared
    /\ max_result_chars = MaxResultCharsLarge
    /\ tools = <<SearchTool, FinishTool>>

\* what the oracle does in the runs of the two threads
SharedOracleOutcomes ==
    {[kind |-> "dict", dict |-> [text |-> "Paris is the capital of France."]],
     [kind |-> "dict", dict |-> [tool_call |->
        [name |-> "finish", args |-> [answer |-> "X", sources_used |-> <<"b", "b">>]]]],
     [kind |-> "dict", dict |-> [tool_call |->
        [name |-> "search_documents", args |-> [query |-> "q"]]]]}

SharedGenerateOutcomes == {[kind |-> "dict", dict |-> [text |-> "G"]]}

\* each of the two threads calls run() once
NextShared ==
    \/ \E q \in Queries, h \in Histories : pc = "idle" /\ RunStart("chA", q, h)
    \/ \E o \in SharedOracleOutcomes : Think(o)
    \/ Act
    \/ \E o \in SharedGenerateOutcomes : ForcedAnswer(o)
    \/ Return
    \/ Switch

SpecShared == InitShared /\ [][NextShared]_vars

\* _execute_tool: `result = tool.execute(**tool_input)` searching the channel given
\* with the call, as if the channel were an argument of execute
execute_run_channel ==
    /\ pc = "execute"
    /\ Execute(run_channel)
    /\ UNCHANGED tool_channel_id

\* _execute_tool from `result = tool.execute(**tool_input)` on: execute reads the
\* tool's _channel_id when it is called
execute ==
    /\ pc = "execute"
    /\ Execute(tool_channel_id)
    /\ UNCHANGED tool_channel_id

\* _execute_tool up to `tool.set_channel_id(channel_id)`
set_channel_id ==
    /\ pc = "act"
    /\ tool_channel_id' = SetChannelId(RegistryGet(registry, pending.tool_call.name),
                                       tool_channel_id, run_channel)
    /\ pc' = "execute"
    /\ UNCHANGED <<config, observations, messages, is_finished, final_result,
                   sources_used, iteration, accumulated_context, run_channel, run_query,
                   pending, ret, events, reused, other, outside>>

\* an Agent with the built-in tools and max_iterations = 1, before either thread has
\* called run()
InitChannels == InitShared /\ max_iterations = 1

\* each of the two threads calls run() once, each for a channel of its own, and a
\* thread switch can fall between set_channel_id and execute
NextChannels ==
    \/ \E c \in {"chA", "chB"} \ {other.run_channel}, q \in Queries, h \in Histories :
            pc = "idle" /\ RunStart(c, q, h)
    \/ \E o \in SharedOracleOutcomes : Think(o)
    \/ set_channel_id
    \/ execute
    \/ \E o \in SharedGenerateOutcomes : ForcedAnswer(o)
    \/ Return
    \/ Switch

SpecChannels == InitChannels /\ [][NextChannels]_vars

\* the conversation_history of a caller that has talked before
PriorTurns ==
    {<<[role |-> "user", content |-> "hi"]>>,
     <<[role |-> "user", content |-> "hi"], [role |-> "assistant", content |-> "hello"]>>}

\* two callers call run() one after the other with the same channel and query, the
\* first without conversation_history and the second with one
NextHistory ==
    \/ \E q \in Queries, h \in Histories :
            pc = "idle" /\ other.pc = "idle" /\ RunStart("chA", q, h)
    \/ \E q \in Queries, h \in PriorTurns :
            pc = "idle" /\ other.pc = "returned" /\ RunStart("chA", q, h)
    \/ \E o \in SharedOracleOutcomes : Think(o)
    \/ Act
    \/ \E o \in SharedGenerateOutcomes : ForcedAnswer(o)
    \/ Return
    \/ pc = "returned" /\ other.pc = "idle" /\ Switch

SpecHistory == InitShared /\ [][NextHistory]_vars

----------------------------------------------------------------------------
(* ToolRegistry, for any list of tools *)

\* a second third-party tool with the name of the first
CustomToolB == [name |-> "custom", kind |-> "custom2"]

ToolSet == {SearchTool, FinishTool, CustomTool, CustomToolB}

\* the longest list of tools given at construction
MaxTools == 3

\* the lists of at most n tools
RECURSIVE ToolListsUpTo(_)
ToolListsUpTo(n) ==
    IF n = 0 THEN {<<>>}
    ELSE LET shorter == ToolListsUpTo(n - 1)
         IN  shorter \cup {Append(l, t) : l \in shorter, t \in ToolSet}

\* the names looked up
ToolNames == {"search_documents", "finish", "custom", "bogus"}

\* registry.get(name), called from outside run()
get(name) ==
    /\ lookup' = [op |-> "get", arg |-> name, result |-> RegistryGet(registry, name)]
    /\ UNCHANGED <<shared, locals, other, caller_history, capacity, lifecycle, metrics,
                   scheduler, cache, singletons>>

\* registry.get_all(), called from outside run()
get_all ==
    /\ lookup' = [op |-> "get_all", arg |-> None, result |-> GetAll(registry)]
    /\ UNCHANGED <<shared, locals, other, caller_history, capacity, lifecycle, metrics,
                   scheduler, cache, singletons>>

\* registry.get_all_for_gemini(), called from outside run()
get_all_for_gemini ==
    /\ lookup' = [op |-> "get_all_for_gemini", arg |-> None,
                  result |-> GetAllForGemini(registry)]
    /\ UNCHANGED <<shared, locals, other, caller_history, capacity, lifecycle, metrics,
                   scheduler, cache, singletons>>

\* registry.list_names(), called from outside run()
list_names ==
    /\ lookup' = [op |-> "list_names", arg |-> None, result |-> ListNames(registry)]
    /\ UNCHANGED <<shared, locals, other, caller_history, capacity, lifecycle, metrics,
                   scheduler, cache, singletons>>

\* what the oracle does in the runs of an Agent with any list of tools
RegistryOracleOutcomes ==
    SharedOracleOutcomes
    \cup {[kind |-> "dict", dict |-> [tool_call |-> [name |-> "custom", args |-> EmptyDict]]]}

\* an Agent constructed with any list of at most MaxTools tools
InitRegistry ==
    /\ max_iterations = 1
    /\ max_result_chars = MaxResultCharsLarge
    /\ tools \in ToolListsUpTo(MaxTools)
    /\ NewAgent
    /\ ServicesAtRest("agent")

\* one run(), and the lookups and enumerations, in any order
NextRegistry ==
    \/ \E q \in Queries, h \in Histories : pc = "idle" /\ RunStart("chA", q, h)
    \/ \E o \in RegistryOracleOutcomes : Think(o)
    \/ Act
    \/ \E o \in SharedGenerateOutcomes : ForcedAnswer(o)
    \/ Return
    \/ \E name \in ToolNames : get(name)
    \/ get_all
    \/ get_all_for_gemini
    \/ list_names

SpecRegistry == InitRegistry /\ [][NextRegistry]_vars

----------------------------------------------------------------------------
(* Agent.get_execution_summary *)

\* get_execution_summary: the loop that counts the observations by tool name
RECURSIVE ToolUsage(_)
ToolUsage(obs) ==
    IF obs = <<>> THEN EmptyDict
    ELSE LET usage == ToolUsage(SubSeq(obs, 1, Len(obs) - 1))
             tool_name == obs[Len(obs)].tool_name
         IN  Put(usage, tool_name, DictGet(usage, tool_name, 0) + 1)

\* get_execution_summary: the loop that counts the failed observations
RECURSIVE ErrorCount(_)
ErrorCount(obs) ==
    IF obs = <<>> THEN 0
    ELSE ErrorCount(SubSeq(obs, 1, Len(obs) - 1))
         + (IF obs[Len(obs)].result.success THEN 0 ELSE 1)

\* ExecutionSummary that takes a run with a final result for a finished one
ExecutionSummaryFinishedIfAnswered ==
    [total_iterations |-> Len(observations),
     is_finished |-> ~Falsy(final_result),
     final_result_length |-> IF Falsy(final_result) THEN 0 ELSE Len(final_result),
     tool_usage |-> ToolUsage(observations),
     error_count |-> ErrorCount(observations),
     sources_found |-> Len(sources_used)]

\* the dict get_execution_summary() returns
ExecutionSummary ==
    [total_iterations |-> Len(observations),
     is_finished |-> is_finished,
     final_result_length |-> IF Falsy(final_result) THEN 0 ELSE Len(final_result),
     tool_usage |-> ToolUsage(observations),
     error_count |-> ErrorCount(observations),
     sources_found |-> Len(sources_used)]

\* agent.get_execution_summary(), called when no run() is in progress
get_execution_summary ==
    /\ pc \in {"idle", "returned", "raised"}
    /\ lookup' = [op |-> "get_execution_summary", arg |-> None, result |-> ExecutionSummary]
    /\ UNCHANGED <<shared, locals, other, caller_history, capacity, lifecycle, metrics,
                   scheduler, cache, singletons>>

\* one run() of an Agent, and summaries before and after it
NextSummary ==
    \/ \E c \in Channels, q \in Queries, h \in Histories : pc = "idle" /\ RunStart(c, q, h)
    \/ \E o \in OracleOutcomes : Think(o)
    \/ Act
    \/ \E o \in GenerateOutcomes : ForcedAnswer(o)
    \/ Return
    \/ get_execution_summary

SpecSummary == Init /\ [][NextSummary]_vars

----------------------------------------------------------------------------
(* The services run in a process whose Agent is not in use *)

agent == <<shared, locals, other, lookup, caller_history>>

AgentAtRest ==
    /\ max_iterations = 0
    /\ max_result_chars = 0
    /\ tools = <<>>
    /\ NewAgent

----------------------------------------------------------------------------
(* CapacityService *)

\* settings.max_files_per_channel and settings.max_channel_size_mb
MaxFilesPerChannel == 3
MaxChannelSizeMb == 1

\* the largest file_count and size (in MB) a channel row is let grow to
MaxStoredFiles == 5
MaxStoredMb == 2

\* the number of upload requests in progress at the same time
NumUploads == 2

BytesPerMb == 1024 * 1024

\* CapacityService.__init__
max_files == MaxFilesPerChannel
max_size_bytes == MaxChannelSizeMb * BytesPerMb

\* the channel the database holds, and one it does not hold
ExistingChannel == "store/capacity-test"

\* the sizes and the numbers of files of an upload or a deletion
FileSizes == {0, BytesPerMb \div 2, BytesPerMb}
FileCounts == {1, 2}

\* the channel rows: file_count and total_size_bytes up to fc files and mb MB
ChannelRows(fc, mb) ==
    {[file_count |-> n, total_size_bytes |-> k * (BytesPerMb \div 2)] :
        n \in 0..fc, k \in 0..(2 * mb)}

\* repo.get_by_gemini_id(channel_id) on the rows chs: the row, or not found (None)
GetByGeminiId(chs, channel_id) ==
    IF channel_id \in DOMAIN chs
    THEN [found |-> TRUE, file_count |-> chs[channel_id].file_count,
          total_size_bytes |-> chs[channel_id].total_size_bytes]
    ELSE [found |-> FALSE, file_count |-> 0, total_size_bytes |-> 0]

\* repo.update_stats(gemini_store_id, file_count, total_size_bytes)
UpdateStats(chs, channel_id, file_count, total_size_bytes) ==
    [chs EXCEPT ![channel_id] =
        [file_count |-> file_count, total_size_bytes |-> total_size_bytes]]

\* round(n / d) for n >= 0 and d > 0, ties to even
RoundHalfEven(n, d) ==
    LET q == n \div d
        r == n % d
    IN  IF 2 * r < d THEN q
        ELSE IF 2 * r > d THEN q + 1
        ELSE IF q % 2 = 0 THEN q ELSE q + 1

\* round(100 * num / den, 1) in tenths of a percent; the fraction is reduced by unit,
\* a divisor of 1000 and of den, to stay within 32 bits
PercentTenths(num, den, unit) == RoundHalfEven(num * (1000 \div unit), den \div unit)

\* max(0, x) without the clamp
NoClamp(x) == x

\* max(0, x)
ClampAtZero(x) == IF x < 0 THEN 0 ELSE x

\* CapacityService._calculate_usage(channel), percentages in tenths of a percent
CalculateUsage(channel) ==
    [file_count |-> channel.file_count,
     max_files |-> max_files,
     file_usage_percent |-> PercentTenths(channel.file_count, max_files, 1),
     size_bytes |-> channel.total_size_bytes,
     max_size_bytes |-> max_size_bytes,
     size_usage_percent |-> PercentTenths(channel.total_size_bytes, max_size_bytes, 8),
     can_upload |-> (channel.file_count < max_files
                     /\ channel.total_size_bytes < max_size_bytes),
     remaining_files |-> ClampAtZero(max_files - channel.file_count),
     remaining_bytes |-> ClampAtZero(max_size_bytes - channel.total_size_bytes)]

\* CapacityService.validate_upload, given the row it read: what it returns or raises
ValidateUpload(channel, file_size, file_count) ==
    IF ~channel.found THEN [kind |-> "True"]
    ELSE IF channel.file_count + file_count > max_files
    THEN [kind |-> "CapacityExceededError", limit_type |-> "file_count",
          current |-> channel.file_count, limit |-> max_files]
    ELSE IF channel.total_size_bytes + file_size > max_size_bytes
    THEN [kind |-> "CapacityExceededError", limit_type |-> "size",
          current |-> channel.total_size_bytes, limit |-> max_size_bytes]
    ELSE [kind |-> "True"]

\* one call of a method: its arguments, the row it read at entry and what it returned
CapacityCall(op, channel_id, file_size, file_count, channel, value) ==
    [op |-> op, channel_id |-> channel_id, file_size |-> file_size,
     file_count |-> file_count, channel |-> channel, value |-> value]

\* CapacityService.validate_upload(channel_id, file_size, file_count)
validate_upload(channel_id, file_size, file_count) ==
    LET channel == GetByGeminiId(channels, channel_id)
    IN  /\ uploads = <<>>
        /\ capacity_ret' = CapacityCall("validate_upload", channel_id, file_size,
                                file_count, channel,
                                ValidateUpload(channel, file_size, file_count))
        /\ UNCHANGED <<channels, uploads, agent, cache, singletons, lifecycle, metrics, scheduler>>

\* CapacityService.update_after_upload(channel_id, file_size, file_count)
update_after_upload(channel_id, file_size, file_count) ==
    LET channel == GetByGeminiId(channels, channel_id)
        new_file_count == channel.file_count + file_count
        new_size == channel.total_size_bytes + file_size
    IN  /\ uploads = <<>>
        /\ new_file_count <= MaxStoredFiles
        /\ new_size <= MaxStoredMb * BytesPerMb
        /\ IF ~channel.found
           THEN /\ capacity_ret' = CapacityCall("update_after_upload", channel_id,
                                        file_size, file_count, channel, [kind |-> "None"])
                /\ UNCHANGED channels
           ELSE /\ channels' = UpdateStats(channels, channel_id, new_file_count, new_size)
                /\ capacity_ret' = CapacityCall("update_after_upload", channel_id,
                        file_size, file_count, channel,
                        [kind |-> "usage",
                         usage |-> CalculateUsage(GetByGeminiId(channels', channel_id))])
        /\ UNCHANGED <<uploads, agent, cache, singletons, lifecycle, metrics, scheduler>>

\* CapacityService.update_after_delete(channel_id, file_size, file_count)
update_after_delete(channel_id, file_size, file_count) ==
    LET channel == GetByGeminiId(channels, channel_id)
        new_file_count == ClampAtZero(channel.file_count - file_count)
        new_size == ClampAtZero(channel.total_size_bytes - file_size)
    IN  /\ uploads = <<>>
        /\ IF ~channel.found
           THEN /\ capacity_ret' = CapacityCall("update_after_delete", channel_id,
                                        file_size, file_count, channel, [kind |-> "None"])
                /\ UNCHANGED channels
           ELSE /\ channels' = UpdateStats(channels, channel_id, new_file_count, new_size)
                /\ capacity_ret' = CapacityCall("update_after_delete", channel_id,
                        file_size, file_count, channel,
                        [kind |-> "usage",
                         usage |-> CalculateUsage(GetByGeminiId(channels', channel_id))])
        /\ UNCHANGED <<uploads, agent, cache, singletons, lifecycle, metrics, scheduler>>

\* a database with one channel, and a CapacityService on it
InitCapacity ==
    /\ AgentAtRest
    /\ \E row \in ChannelRows(MaxStoredFiles, MaxStoredMb) :
            channels = [id \in {ExistingChannel} |-> row]
    /\ capacity_ret = NoCall
    /\ uploads = <<>>
    /\ ServicesAtRest("capacity")

\* the methods called one after the other
NextCapacity ==
    \E id \in {ExistingChannel, "store/nonexistent"}, size \in FileSizes,
       n \in FileCounts :
        \/ validate_upload(id, size, n)
        \/ update_after_upload(id, size, n)
        \/ update_after_delete(id, size, n)

SpecCapacity == InitCapacity /\ [][NextCapacity]_vars

----------------------------------------------------------------------------
(* Uploads to one channel, each by a request with its own CapacityService: *)
(* validate_upload, then, if it returned, update_after_upload. The requests *)
(* share the database rows and nothing else; no lock or transaction spans *)
(* the two calls or the read and the write inside update_after_upload. *)

\* a request that has not started
NewUpload ==
    [pc |-> "start", file_size |-> 0, file_count |-> 0,
     channel |-> GetByGeminiId(<<>>, ExistingChannel)]

\* validate_upload(channel_id, file_size, file_count) of request r
upload_validate(r, file_size, file_count) ==
    LET value == ValidateUpload(GetByGeminiId(channels, ExistingChannel),
                                file_size, file_count)
    IN  /\ uploads[r].pc = "start"
        /\ uploads' = [uploads EXCEPT ![r] =
                [@ EXCEPT !.pc = IF value.kind = "True" THEN "validated" ELSE "rejected",
                          !.file_size = file_size,
                          !.file_count = file_count]]
        /\ UNCHANGED <<channels, capacity_ret, agent, cache, singletons, lifecycle,
                       metrics, scheduler>>

\* update_after_upload of request r, up to its read of the row
upload_read(r) ==
    /\ uploads[r].pc = "validated"
    /\ uploads' = [uploads EXCEPT ![r] =
            [@ EXCEPT !.pc = "read",
                      !.channel = GetByGeminiId(channels, ExistingChannel)]]
    /\ UNCHANGED <<channels, capacity_ret, agent, cache, singletons, lifecycle, metrics, scheduler>>

\* update_after_upload of request r, from its update_stats call to its return
upload_write(r) ==
    LET new_file_count == uploads[r].channel.file_count + uploads[r].file_count
        new_size == uploads[r].channel.total_size_bytes + uploads[r].file_size
    IN  /\ uploads[r].pc = "read"
        /\ new_file_count <= MaxStoredFiles
        /\ new_size <= MaxStoredMb * BytesPerMb
        /\ channels' = UpdateStats(channels, ExistingChannel, new_file_count, new_size)
        /\ capacity_ret' = CapacityCall("update_after_upload", ExistingChannel,
                uploads[r].file_size, uploads[r].file_count, uploads[r].channel,
                [kind |-> "usage",
                         usage |-> CalculateUsage(GetByGeminiId(channels', ExistingChannel))])
        /\ uploads' = [uploads EXCEPT ![r] = [@ EXCEPT !.pc = "done"]]
        /\ UNCHANGED <<agent, cache, singletons, lifecycle, metrics, scheduler>>

\* a channel within its limits and NumUploads requests that have not started
InitUploads ==
    /\ AgentAtRest
    /\ \E row \in ChannelRows(MaxFilesPerChannel, MaxChannelSizeMb) :
            channels = [id \in {ExistingChannel} |-> row]
    /\ capacity_ret = NoCall
    /\ uploads = [r \in 1..NumUploads |-> NewUpload]
    /\ ServicesAtRest("capacity")

NextUploads ==
    \/ \E r \in 1..NumUploads, size \in FileSizes, n \in FileCounts :
            upload_validate(r, size, n)
    \/ \E r \in 1..NumUploads : upload_read(r)
    \/ \E r \in 1..NumUploads : upload_write(r)

SpecUploads == InitUploads /\ [][NextUploads]_vars

----------------------------------------------------------------------------
(* LifecyclePolicy *)

\* the largest inactive_days and idle_warning_days of a LifecycleConfig
MaxDays == 2

\* the largest max_files_per_channel and max_channel_size_mb of a LifecycleConfig
PolicyMaxFiles == 5
PolicyMaxMb == 1

\* datetimes are counted in hours; timedelta.days is the whole days of a difference
HoursPerDay == 24

\* LifecycleConfig(inactive_days, idle_warning_days, max_files_per_channel,
\* max_channel_size_mb)
LifecycleConfigs ==
    {[inactive_days |-> i, idle_warning_days |-> w, max_files_per_channel |-> f,
      max_channel_size_mb |-> m] :
        i \in 0..MaxDays, w \in 0..MaxDays, f \in {1, PolicyMaxFiles}, m \in 1..PolicyMaxMb}

\* the sizes of a channel around 80% and 100% of max_mb MB
PolicySizes(max_mb) ==
    LET max_bytes == max_mb * BytesPerMb
    IN  {0, (4 * max_bytes) \div 5, (4 * max_bytes) \div 5 + 1, max_bytes - 1, max_bytes,
         max_bytes + max_bytes \div 5}

\* ChannelMetadata rows: file_count, total_size_bytes, last_accessed_at
PolicyChannels(max_mb) ==
    {[file_count |-> n, total_size_bytes |-> b, last_accessed_at |-> t] :
        n \in 0..(PolicyMaxFiles + 1), b \in PolicySizes(max_mb), t \in {0, 1}}

\* datetime.now(UTC): from a day before the first access to after every threshold,
\* at the first and the last hour of a day
PolicyNows ==
    {HoursPerDay * d + h : d \in (-1)..(MaxDays + 1), h \in {0, HoursPerDay - 1}}

\* max(file_usage, size_usage) of percentages 100 * num / den kept as fractions
UsageMax(a, b) == IF a.num * b.den >= b.num * a.den THEN a ELSE b

\* usage_percent >= pct
UsageAtLeast(usage_percent, pct) == 100 * usage_percent.num >= pct * usage_percent.den

\* f"{usage_percent:.0f}"
UsageWhole(usage_percent) == RoundHalfEven(100 * usage_percent.num, usage_percent.den)

\* _evaluate_state with the inactivity test before the capacity test
EvaluateStateInactivityFirst(policy, days_since_access, days_until_inactive, usage_percent) ==
    IF days_until_inactive <= 0
    THEN <<"inactive", "archive", "Channel has been inactive">>
    ELSE IF UsageAtLeast(usage_percent, 100)
    THEN <<"over_limit", "warn_over_limit", "Channel has exceeded capacity limits">>
    ELSE IF days_since_access >= policy.idle_warning_days
    THEN <<"idle", "warn_idle", "Channel has been idle">>
    ELSE IF UsageAtLeast(usage_percent, 80)
    THEN <<"active", "warn_over_limit", "Channel is approaching capacity limits">>
    ELSE <<"active", "none", "Channel is active and within limits.">>

\* LifecyclePolicy._evaluate_state: state, action (the values of ChannelState and
\* ChannelAction), message
EvaluateState(policy, days_since_access, days_until_inactive, usage_percent) ==
    IF UsageAtLeast(usage_percent, 100)
    THEN <<"over_limit", "warn_over_limit",
           "Channel has exceeded capacity limits (" \o ToString(UsageWhole(usage_percent))
           \o "% used). Please remove some documents to continue using this channel.">>
    ELSE IF days_until_inactive <= 0
    THEN <<"inactive", "archive",
           "Channel has been inactive for " \o ToString(days_since_access)
           \o " days. It is scheduled for cleanup. Access the channel to prevent deletion.">>
    ELSE IF days_since_access >= policy.idle_warning_days
    THEN <<"idle", "warn_idle",
           "Channel has been idle for " \o ToString(days_since_access)
           \o " days. It will be marked inactive in " \o ToString(days_until_inactive)
           \o " days.">>
    ELSE IF UsageAtLeast(usage_percent, 80)
    THEN <<"active", "warn_over_limit",
           "Channel is approaching capacity limits ("
           \o ToString(UsageWhole(usage_percent)) \o "% used).">>
    ELSE <<"active", "none", "Channel is active and within limits.">>

\* LifecyclePolicy.get_status(channel) at the time now: the LifecycleStatus
GetStatus(policy, channel, now) ==
    LET days_since_access == (now - channel.last_accessed_at) \div HoursPerDay
        days_until_inactive == policy.inactive_days - days_since_access
        file_usage == [num |-> channel.file_count, den |-> policy.max_files_per_channel]
        size_usage == [num |-> channel.total_size_bytes,
                       den |-> policy.max_channel_size_mb * BytesPerMb]
        usage_percent == UsageMax(file_usage, size_usage)
        evaluated == EvaluateState(policy, days_since_access, days_until_inactive,
                                   usage_percent)
    IN  [state |-> evaluated[1],
         action |-> evaluated[2],
         days_since_access |-> days_since_access,
         days_until_inactive |-> days_until_inactive,
         usage_percent |-> PercentTenths(usage_percent.num, usage_percent.den,
                                         IF usage_percent.den % 2 = 0 THEN 2 ELSE 1),
         message |-> evaluated[3]]

\* LifecyclePolicy.get_status(channel)
get_status ==
    /\ policy_status' = GetStatus(policy_config, policy_channel, policy_now)
    /\ UNCHANGED <<policy_config, policy_channel, policy_now>>
    /\ UNCHANGED <<agent, cache, singletons, capacity, metrics, scheduler>>

\* a LifecyclePolicy with some config, a channel and the time of the call
InitLifecycle ==
    /\ AgentAtRest
    /\ policy_config \in LifecycleConfigs
    /\ policy_channel \in PolicyChannels(policy_config.max_channel_size_mb)
    /\ policy_now \in PolicyNows
    /\ policy_status = NoCall
    /\ ServicesAtRest("lifecycle")

SpecLifecycle == InitLifecycle /\ [][get_status]_vars

----------------------------------------------------------------------------
(* ApiMetricsService, called by several threads. A statement x += 1 is a load of x *)
(* and a store of the sum; a thread may be preempted between any two steps. *)

\* the number of threads, and the most record_call and record_gemini_call invocations
\* between two resets
NumCallers == 2
MaxCalls == 3

MetricsEndpoints == {"/api/v1/test", "/api/v1/less"}

\* EndpointMetrics()
EndpointMetrics ==
    [total_calls |-> 0, success_count |-> 0, error_count |-> 0, total_latency_ms |-> 0]

\* a thread that is in no method of the service
CallerOutside ==
    [pc |-> "outside", op |-> "none", endpoint |-> "", success |-> FALSE, latency_ms |-> 0,
     field |-> "", loaded |-> 0]

\* Lock.acquire that never blocks
LockNotExclusive(holder) == TRUE

\* Lock.acquire can proceed: the lock is 0 when unlocked, else the thread that holds it
LockFree(holder) == holder = 0

\* the invocations counted so far plus those in progress
CallsSoFar ==
    LET RECURSIVE Sum(_)
        Sum(ks) == IF ks = {} THEN 0
                   ELSE LET k == CHOOSE x \in ks : TRUE
                        IN  recorded[k] + Sum(ks \ {k})
    IN  Sum(DOMAIN recorded)
        + Cardinality({t \in DOMAIN callers :
                         callers[t].op # "reset" /\ callers[t].pc = "with"})

\* the sum of total_calls over the endpoints
TotalCalls(d) ==
    LET RECURSIVE Sum(_)
        Sum(ks) == IF ks = {} THEN 0
                   ELSE LET k == CHOOSE x \in ks : TRUE
                        IN  d[k].total_calls + Sum(ks \ {k})
    IN  Sum(DOMAIN d)

\* the counter that follows field in record_call, "" after the last
NextField(field, success) ==
    IF field = "total_calls" THEN "total_latency_ms"
    ELSE IF field = "total_latency_ms"
    THEN (IF success THEN "success_count" ELSE "error_count")
    ELSE ""

\* thread t calls record_call(endpoint, success, latency_ms) and reaches `with self._lock`
record_call(t, endpoint, success, latency_ms) ==
    /\ callers[t].pc = "outside"
    /\ CallsSoFar < MaxCalls
    /\ callers' = [callers EXCEPT ![t] =
            [pc |-> "with", op |-> "record_call", endpoint |-> endpoint,
             success |-> success, latency_ms |-> latency_ms, field |-> "",
             loaded |-> 0]]
    /\ UNCHANGED <<endpoints, gemini_api_calls, lock, recorded>>
    /\ UNCHANGED <<agent, cache, singletons, capacity, lifecycle, scheduler>>

\* thread t calls record_gemini_call() and reaches `with self._lock`
record_gemini_call(t) ==
    /\ callers[t].pc = "outside"
    /\ CallsSoFar < MaxCalls
    /\ callers' = [callers EXCEPT ![t] =
            [CallerOutside EXCEPT !.pc = "with", !.op = "record_gemini_call"]]
    /\ UNCHANGED <<endpoints, gemini_api_calls, lock, recorded>>
    /\ UNCHANGED <<agent, cache, singletons, capacity, lifecycle, scheduler>>

\* thread t calls reset() and reaches `with self._lock`
reset(t) ==
    /\ callers[t].pc = "outside"
    /\ callers' = [callers EXCEPT ![t] =
            [CallerOutside EXCEPT !.pc = "with", !.op = "reset"]]
    /\ UNCHANGED <<endpoints, gemini_api_calls, lock, recorded>>
    /\ UNCHANGED <<agent, cache, singletons, capacity, lifecycle, scheduler>>

\* `with self._lock:` thread t acquires the lock; record_call then evaluates
\* self._endpoints[endpoint], which creates the entry of a new endpoint
lock_acquire(t) ==
    /\ callers[t].pc = "with"
    /\ LockFree(lock)
    /\ lock' = t
    /\ IF callers[t].op = "record_call"
       THEN /\ endpoints' = IF callers[t].endpoint \in DOMAIN endpoints THEN endpoints
                            ELSE Put(endpoints, callers[t].endpoint, EndpointMetrics)
            /\ recorded' = Put(recorded, callers[t].endpoint,
                                   DictGet(recorded, callers[t].endpoint, 0) + 1)
            /\ callers' = [callers EXCEPT ![t].pc = "load", ![t].field = "total_calls"]
       ELSE IF callers[t].op = "record_gemini_call"
       THEN /\ recorded' = Put(recorded, "gemini", DictGet(recorded, "gemini", 0) + 1)
            /\ callers' = [callers EXCEPT ![t].pc = "load", ![t].field = "gemini"]
            /\ UNCHANGED endpoints
       ELSE /\ recorded' = EmptyDict
            /\ callers' = [callers EXCEPT ![t].pc = "clear"]
            /\ UNCHANGED endpoints
    /\ UNCHANGED gemini_api_calls
    /\ UNCHANGED <<agent, cache, singletons, capacity, lifecycle, scheduler>>

\* the load of `x += n` in record_call and record_gemini_call
counter_load(t) ==
    /\ callers[t].pc = "load"
    /\ callers' = [callers EXCEPT ![t].pc = "store",
            ![t].loaded = IF callers[t].field = "gemini" THEN gemini_api_calls
                          ELSE DictGet(endpoints, callers[t].endpoint,
                                       EndpointMetrics)[callers[t].field]]
    /\ UNCHANGED <<endpoints, gemini_api_calls, lock, recorded>>
    /\ UNCHANGED <<agent, cache, singletons, capacity, lifecycle, scheduler>>

\* the store of `x += n` in record_call and record_gemini_call
counter_store(t) ==
    LET field == callers[t].field
        value == callers[t].loaded
                 + (IF field = "total_latency_ms" THEN callers[t].latency_ms ELSE 1)
        next == NextField(field, callers[t].success)
    IN  /\ callers[t].pc = "store"
        /\ IF field = "gemini"
           THEN /\ gemini_api_calls' = value
                /\ UNCHANGED endpoints
           ELSE /\ endpoints' = Put(endpoints, callers[t].endpoint,
                        [DictGet(endpoints, callers[t].endpoint, EndpointMetrics)
                            EXCEPT ![field] = value])
                /\ UNCHANGED gemini_api_calls
        /\ callers' = [callers EXCEPT
                ![t].pc = IF field = "gemini" \/ next = "" THEN "exit" ELSE "load",
                ![t].field = IF field = "gemini" THEN "" ELSE next]
        /\ UNCHANGED <<lock, recorded>>
        /\ UNCHANGED <<agent, cache, singletons, capacity, lifecycle, scheduler>>

\* reset: self._endpoints.clear(); `loaded` keeps the number of calls dropped
reset_clear(t) ==
    /\ callers[t].pc = "clear"
    /\ endpoints' = EmptyDict
    /\ callers' = [callers EXCEPT ![t].pc = "zero",
                                  ![t].loaded = TotalCalls(endpoints) + gemini_api_calls]
    /\ UNCHANGED <<gemini_api_calls, lock, recorded>>
    /\ UNCHANGED <<agent, cache, singletons, capacity, lifecycle, scheduler>>

\* reset: self._gemini_api_calls = 0 (and the new start time)
reset_zero(t) ==
    /\ callers[t].pc = "zero"
    /\ gemini_api_calls' = 0
    /\ callers' = [callers EXCEPT ![t].pc = "exit"]
    /\ UNCHANGED <<endpoints, lock, recorded>>
    /\ UNCHANGED <<agent, cache, singletons, capacity, lifecycle, scheduler>>

\* the end of the `with` block: thread t releases the lock and the method returns
lock_release(t) ==
    /\ callers[t].pc = "exit"
    /\ lock' = 0
    /\ callers' = [callers EXCEPT ![t] = CallerOutside]
    /\ UNCHANGED <<endpoints, gemini_api_calls, recorded>>
    /\ UNCHANGED <<agent, cache, singletons, capacity, lifecycle, scheduler>>

\* a new ApiMetricsService and NumCallers threads
InitMetrics ==
    /\ AgentAtRest
    /\ endpoints = EmptyDict
    /\ gemini_api_calls = 0
    /\ lock = 0
    /\ callers = [t \in 1..NumCallers |-> CallerOutside]
    /\ recorded = EmptyDict
    /\ ServicesAtRest("metrics")

NextMetrics ==
    \E t \in 1..NumCallers :
        \/ \E endpoint \in MetricsEndpoints, success \in BOOLEAN :
                record_call(t, endpoint, success, 10)
        \/ record_gemini_call(t)
        \/ reset(t)
        \/ lock_acquire(t)
        \/ counter_load(t)
        \/ counter_store(t)
        \/ reset_clear(t)
        \/ reset_zero(t)
        \/ lock_release(t)

SpecMetrics == InitMetrics /\ [][NextMetrics]_vars

----------------------------------------------------------------------------
(* SchedulerService: the job history *)

\* the number of job execution events of a behaviour, and the number of its first
\* events whose job and outcome vary (the later ones are successful runs of one job)
MaxEvents == 102
VariedEvents == 2

\* `if len(self._job_history) > 100`
HistoryCap == 100

\* the JobExecutionEvent of the n-th execution: job_id and exception (None if it ran)
JobEvents(n) ==
    IF n <= VariedEvents
    THEN {[job_id |-> j, exception |-> x] : j \in {"cleanup", "stats"}, x \in {None, "boom"}}
    ELSE {[job_id |-> "cleanup", exception |-> None]}

\* the limits get_job_history is called with (20 is the default)
Limits == {0, 1, 2, 20, HistoryCap, HistoryCap + 1}

\* datetime.isoformat() of the time of the n-th event, on a clock that ticks per event
IsoFormat(n) == "T" \o ToString(n)

\* list.pop(0): the list that remains
PopFirst(history) == Tail(history)

\* seq[start:] with Python's treatment of a negative or too large start
SliceFrom(seq, start) ==
    LET n == Len(seq)
        from == IF start < 0 THEN (IF n + start < 0 THEN 0 ELSE n + start)
                ELSE (IF start > n THEN n ELSE start)
    IN  SubSeq(seq, from + 1, n)

\* SchedulerService._job_listener(event), the listener of executed and failed jobs
job_listener(event) ==
    LET status == IF event.exception # None THEN "failed" ELSE "success"
        error == IF event.exception # None THEN event.exception ELSE None
        appended == Append(job_history,
                           [job_id |-> event.job_id, run_time |-> IsoFormat(fired + 1),
                            status |-> status, error |-> error])
    IN  /\ fired < MaxEvents
        /\ fired' = fired + 1
        /\ job_history' = IF Len(appended) > HistoryCap THEN PopFirst(appended)
                          ELSE appended
        /\ history_ret' = NoCall
        /\ UNCHANGED <<agent, cache, singletons, capacity, lifecycle, metrics>>

\* SchedulerService.get_job_history(limit)
get_job_history(limit) ==
    /\ history_ret' = [op |-> "get_job_history", limit |-> limit,
                       result |-> SliceFrom(job_history, 0 - limit)]
    /\ UNCHANGED <<job_history, fired>>
    /\ UNCHANGED <<agent, cache, singletons, capacity, lifecycle, metrics>>

\* a new SchedulerService
InitScheduler ==
    /\ AgentAtRest
    /\ job_history = <<>>
    /\ history_ret = NoCall
    /\ fired = 0
    /\ ServicesAtRest("scheduler")

NextScheduler ==
    \/ \E event \in JobEvents(fired + 1) : job_listener(event)
    \/ \E limit \in Limits : get_job_history(limit)

SpecScheduler == InitScheduler /\ [][NextScheduler]_vars

----------------------------------------------------------------------------
(* CacheService, within the TTL of its entries and below the maxsize of its caches *)

\* the largest number of get_chat_response calls explored
MaxLookups == 2

CacheChannels == {"ch1", "ch2"}
CacheQueries == {"Hello", " hello ", "bye"}

\* CacheService._generate_chat_key: the digest of "channel_id:query.strip().lower()",
\* a string that differs for different contents
GenerateChatKey(channel_id, query) ==
    LET stripped_lower == IF query \in {"Hello", " hello "} THEN "hello" ELSE query
    IN  "sha256(" \o channel_id \o ":" \o stripped_lower \o ")"

\* cache.set_chat_response(channel_id, query, response)
set_chat_response(channel_id, query, response) ==
    /\ chat_cache' = Put(chat_cache, GenerateChatKey(channel_id, query),
                         [response |-> response, _cached_at |-> "now"])
    /\ cache_ret' = [op |-> "set_chat_response", channel |-> channel_id, query |-> query]
    /\ UNCHANGED <<document_cache, channel_cache, store_cache, cache_stats>>
    /\ UNCHANGED <<agent, capacity, lifecycle, metrics, scheduler, singletons>>

\* cache.get_chat_response(channel_id, query)
get_chat_response(channel_id, query) ==
    LET key == GenerateChatKey(channel_id, query)
        hit == key \in DOMAIN chat_cache
        stat == IF hit THEN "hits" ELSE "misses"
    IN  /\ cache_stats.chat.hits + cache_stats.chat.misses < MaxLookups
        /\ cache_stats' = [cache_stats EXCEPT !.chat[stat] = @ + 1]
        /\ cache_ret' = [op |-> "get_chat_response", channel |-> channel_id,
                         query |-> query, hit |-> hit,
                         cached |-> IF hit THEN <<chat_cache[key]>> ELSE <<>>]
        /\ UNCHANGED <<chat_cache, document_cache, channel_cache, store_cache>>
        /\ UNCHANGED <<agent, capacity, lifecycle, metrics, scheduler, singletons>>

\* cache.invalidate_chat_cache(channel_id): keys_to_remove is computed and not used;
\* the count is the size of the whole chat cache, which is cleared
invalidate_chat_cache(channel_id) ==
    /\ cache_ret' = [op |-> "invalidate_chat_cache", channel |-> channel_id,
                     count |-> Cardinality(DOMAIN chat_cache)]
    /\ chat_cache' = EmptyDict
    /\ UNCHANGED <<document_cache, channel_cache, store_cache, cache_stats>>
    /\ UNCHANGED <<agent, capacity, lifecycle, metrics, scheduler, singletons>>

\* cache.set_document_list(channel_id, documents)
set_document_list(channel_id, documents) ==
    /\ document_cache' = Put(document_cache, channel_id, documents)
    /\ cache_ret' = [op |-> "set_document_list", channel |-> channel_id]
    /\ UNCHANGED <<chat_cache, channel_cache, store_cache, cache_stats>>
    /\ UNCHANGED <<agent, capacity, lifecycle, metrics, scheduler, singletons>>

\* cache.set_channel_info(channel_id, info)
set_channel_info(channel_id, info) ==
    /\ channel_cache' = Put(channel_cache, channel_id, info)
    /\ cache_ret' = [op |-> "set_channel_info", channel |-> channel_id]
    /\ UNCHANGED <<chat_cache, document_cache, store_cache, cache_stats>>
    /\ UNCHANGED <<agent, capacity, lifecycle, metrics, scheduler, singletons>>

\* cache.set_store_list(stores)
set_store_list(stores) ==
    /\ store_cache' = Put(store_cache, "stores", stores)
    /\ cache_ret' = [op |-> "set_store_list"]
    /\ UNCHANGED <<chat_cache, document_cache, channel_cache, cache_stats>>
    /\ UNCHANGED <<agent, capacity, lifecycle, metrics, scheduler, singletons>>

\* CacheService.__init__
InitCache ==
    /\ chat_cache = EmptyDict
    /\ document_cache = EmptyDict
    /\ channel_cache = EmptyDict
    /\ store_cache = EmptyDict
    /\ cache_stats = [t \in {"chat", "document", "channel", "store"} |->
                        [hits |-> 0, misses |-> 0]]
    /\ cache_ret = NoCall
    /\ AgentAtRest
    /\ ServicesAtRest("cache")

NextCache ==
    \/ \E c \in CacheChannels, q \in CacheQueries : set_chat_response(c, q, "r1")
    \/ \E c \in CacheChannels, q \in CacheQueries : get_chat_response(c, q)
    \/ \E c \in CacheChannels : invalidate_chat_cache(c)
    \/ \E c \in CacheChannels : set_document_list(c, <<"doc1">>)
    \/ \E c \in CacheChannels : set_channel_info(c, [name |-> "n"])
    \/ set_store_list(<<"store1">>)

SpecCache == InitCache /\ [][NextCache]_vars

----------------------------------------------------------------------------
(* The module-level singletons: get_cache_service, get_scheduler, get_api_metrics *)

\* the number of threads calling the getters
NumGetterThreads == 2

\* the largest number of CacheService instances after which reset_cache_service is
\* still called
MaxInstances == 2

Getters == {"get_cache_service", "get_scheduler", "get_api_metrics"}

\* get_cache_service, get_scheduler, get_api_metrics: `global _x; if _x is None:`
getter_test(t, g) ==
    /\ getters[t].pc = "outside"
    /\ getters' = [getters EXCEPT ![t] =
            [pc |-> IF instance[g] = 0 THEN "create" ELSE "return", getter |-> g]]
    /\ UNCHANGED <<instance, made, handed>>
    /\ UNCHANGED <<agent, capacity, lifecycle, metrics, scheduler, cache>>

\* the getters: `_x = X()`, the construction of an instance and the store to the global
getter_create(t) ==
    /\ getters[t].pc = "create"
    /\ LET g == getters[t].getter
       IN  /\ made' = [made EXCEPT ![g] = @ + 1]
           /\ instance' = [instance EXCEPT ![g] = made[g] + 1]
    /\ getters' = [getters EXCEPT ![t].pc = "return"]
    /\ UNCHANGED handed
    /\ UNCHANGED <<agent, capacity, lifecycle, metrics, scheduler, cache>>

\* the getters: `return _x`, which reads the global again
getter_return(t) ==
    /\ getters[t].pc = "return"
    /\ LET g == getters[t].getter
       IN  handed' = [handed EXCEPT ![g] = @ \cup {instance[g]}]
    /\ getters' = [getters EXCEPT ![t] = [pc |-> "outside", getter |-> ""]]
    /\ UNCHANGED <<instance, made>>
    /\ UNCHANGED <<agent, capacity, lifecycle, metrics, scheduler, cache>>

\* reset_cache_service(): clear_all() on the instance held, and the global set to None
reset_cache_service ==
    /\ made["get_cache_service"] < MaxInstances
    /\ instance' = [instance EXCEPT !["get_cache_service"] = 0]
    /\ handed' = [handed EXCEPT !["get_cache_service"] = {}]
    /\ IF instance["get_cache_service"] # 0
       THEN /\ chat_cache' = EmptyDict
            /\ document_cache' = EmptyDict
            /\ channel_cache' = EmptyDict
            /\ store_cache' = EmptyDict
       ELSE UNCHANGED <<chat_cache, document_cache, channel_cache, store_cache>>
    /\ UNCHANGED <<made, getters, cache_stats, cache_ret>>
    /\ UNCHANGED <<agent, capacity, lifecycle, metrics, scheduler>>

\* the module globals after import: `_cache_service = None`, `_scheduler_instance =
\* None`, `_metrics_instance = None`
InitSingletons ==
    /\ instance = [g \in Getters |-> 0]
    /\ made = [g \in Getters |-> 0]
    /\ getters = [t \in 1..NumGetterThreads |-> [pc |-> "outside", getter |-> ""]]
    /\ handed = [g \in Getters |-> {}]
    /\ AgentAtRest
    /\ ServicesAtRest("singletons")

NextSingletons ==
    \/ \E t \in DOMAIN getters, g \in Getters : getter_test(t, g)
    \/ \E t \in DOMAIN getters : getter_create(t)
    \/ \E t \in DOMAIN getters : getter_return(t)
    \/ reset_cache_service

SpecSingletons == InitSingletons /\ [][NextSingletons]_vars

----------------------------------------------------------------------------
(* The external calls of the run in progress *)

LlmEvents == SelectSeq(events, LAMBDA e : e.ev = "call_with_tools")
ExecEvents == SelectSeq(events, LAMBDA e : e.ev = "execute")
GenEvents == SelectSeq(events, LAMBDA e : e.ev = "generate")

Max0(n) == IF n < 0 THEN 0 ELSE n

\* every tool-selection call of the run has returned a non-finish tool call
OnlyToolCalls == \A i \in 1..Len(LlmEvents) : LlmEvents[i].what = "tool"

----------------------------------------------------------------------------
(* C1 *)

\* C1: whatever the oracle returns and whatever a tool's execute does, run() never
\* raises: no exception leaves run().
C1_RunNeverRaises == pc # "raised"

----------------------------------------------------------------------------
(* C2 *)

\* C2 as stated: a run that has returned issued at most max_iterations call_with_tools
\* calls and returns iterations <= max_iterations, for every max_iterations.
C2_BudgetForEveryN ==
    pc = "returned" =>
        /\ Len(LlmEvents) <= max_iterations
        /\ ret.iterations <= max_iterations

\* C2 amended: at every point of a run at most max(max_iterations, 0) call_with_tools
\* calls have been issued, all of them before the forced-answer generate call, and the
\* iterations value returned never exceeds max(max_iterations, 0).
C2_BudgetInvariant ==
    /\ Len(LlmEvents) <= Max0(max_iterations)
    /\ iteration <= Max0(max_iterations)
    /\ pc = "returned" => ret.iterations <= Max0(max_iterations)
    /\ \A i, j \in 1..Len(events) :
            events[i].ev = "generate" /\ events[j].ev = "call_with_tools" => j < i

\* a run that used its whole budget of at least two tool-selection calls and then took
\* the forced-answer path
C2_Witness ==
    /\ pc = "returned"
    /\ max_iterations >= 2
    /\ Len(LlmEvents) = max_iterations
    /\ ret.iterations = max_iterations
    /\ Len(GenEvents) = 1

----------------------------------------------------------------------------
(* C3 *)

\* C3: a call_with_tools call that raises or returns None at iteration k is the last
\* oracle call of the run (no further tool-selection call, no generate call), and the
\* run returns "Failed to get response from AI." with iterations = k.
C3_OracleFailureIsFatal ==
    \A i \in 1..Len(events) :
        (events[i].ev = "call_with_tools" /\ events[i].what \in {"raise", "none"}) =>
            /\ i = Len(events)
            /\ pc = "returned" =>
                    /\ ret.response = "Failed to get response from AI."
                    /\ ret.iterations = events[i].k

----------------------------------------------------------------------------
(* C4 *)

\* C4: for max_iterations N >= 1, a run whose N tool-selection calls all returned a
\* non-finish tool call performs exactly N iterations, calls generate exactly once and
\* returns its text, or "Failed to generate answer: <message>" if generate raised; and
\* generate is never called in a run that reached a finished state.
C4_ExhaustionThenForcedAnswer ==
    /\ (max_iterations >= 1 /\ Len(LlmEvents) = max_iterations /\ OnlyToolCalls) =>
            /\ pc # "raised"
            /\ pc = "returned" =>
                    /\ ret.iterations = max_iterations
                    /\ Len(GenEvents) = 1
                    /\ LET g == GenEvents[1].out
                       IN  /\ g.kind = "raise" =>
                                ret.response = "Failed to generate answer: " \o g.message
                           /\ (g.kind = "dict" /\ "text" \in DOMAIN g.dict) =>
                                ret.response = g.dict.text
    /\ is_finished => Len(GenEvents) = 0

----------------------------------------------------------------------------
(* C5 *)

\* the last tool-selection call of the run
LastLlm == LlmEvents[Len(LlmEvents)]

\* the run has returned and its last tool-selection call returned a response of class c
ReturnedAfter(c) == pc = "returned" /\ Len(LlmEvents) >= 1 /\ LastLlm.what = c

\* a response of class c is the last external call of the run: no tool is executed at
\* its iteration and no oracle call follows it
EndsTheRun(c) ==
    \A i \in 1..Len(events) :
        (events[i].ev = "call_with_tools" /\ events[i].what = c) =>
            /\ i = Len(events)
            /\ \A j \in 1..Len(events) : events[j].ev = "execute" => events[j].k < events[i].k

\* C5 as stated: a finish call with {answer: X} at iteration k ends the run (no tool
\* executed at k, no further oracle call) and run() returns response X, for every
\* string X, and iterations = k; with the answer absent the response is
\* "Task completed.".
C5_FinishReturnsEveryAnswer ==
    /\ EndsTheRun("finish")
    /\ ReturnedAfter("finish") =>
            LET args == LastLlm.out.dict.tool_call.args
            IN  /\ ret.iterations = LastLlm.k
                /\ ret.response = IF "answer" \in DOMAIN args THEN args.answer
                                  ELSE "Task completed."

\* C5 amended: the same for every non-empty answer X; for the empty answer the
\* response is "No response generated.".
C5_FinishReturnsAnswer ==
    /\ EndsTheRun("finish")
    /\ ReturnedAfter("finish") =>
            LET args == LastLlm.out.dict.tool_call.args
            IN  /\ ret.iterations = LastLlm.k
                /\ ret.response = IF "answer" \notin DOMAIN args THEN "Task completed."
                                  ELSE IF args.answer = "" THEN "No response generated."
                                  ELSE args.answer
                /\ LastLlm.k = 1 => ExecEvents = <<>>

\* a run that searched at iteration 1, was told to finish with answer X at iteration 2
\* and returned
C5_Witness ==
    /\ ReturnedAfter("finish")
    /\ LastLlm.k = 2
    /\ LastLlm.out.dict.tool_call.args = [answer |-> "X"]
    /\ Len(ExecEvents) = 1
    /\ ret.response = "X"

----------------------------------------------------------------------------
(* C6 *)

\* the names the registry holds
RegisteredNames == {registry[i].key : i \in 1..Len(registry)}

\* a text as prompt assembly renders it under a limit of mrc characters
Rendered(text, mrc) ==
    IF Len(text) <= mrc THEN text
    ELSE SubSeq(text, 1, mrc) \o "\n...(truncated, " \o ToString(Len(text)) \o " total chars)"

\* the tool execution that just completed recorded a failed result
JustFailed ==
    /\ Len(events) >= 1
    /\ events[Len(events)].ev = "execute"
    /\ ~events[Len(events)].out.raised
    /\ ~events[Len(events)].out.result.success

----------------------------------------------------------------------------
(* C7 *)

\* seq without the later occurrences of its elements
RECURSIVE RemoveDups(_, _)
RemoveDups(seq, seen) ==
    IF seq = <<>> THEN <<>>
    ELSE IF Head(seq) \in seen THEN RemoveDups(Tail(seq), seen)
    ELSE <<Head(seq)>> \o RemoveDups(Tail(seq), seen \cup {Head(seq)})

\* the [Source N: name] names in the outputs of the successful search_documents calls
\* recorded in obs, in order, with repetitions
RECURSIVE HarvestedNames(_)
HarvestedNames(obs) ==
    IF obs = <<>> THEN <<>>
    ELSE (IF Head(obs).tool_name = "search_documents" /\ Head(obs).result.success
          THEN FindAll(Head(obs).result.output, 1) ELSE <<>>)
         \o HarvestedNames(Tail(obs))

\* names as entries of sources_used
AsSources(names) == [i \in 1..Len(names) |-> [source |-> names[i], content |-> ""]]

\* no finish call has been processed in the run
NoFinishCall == \A i \in 1..Len(LlmEvents) : LlmEvents[i].what # "finish"

\* C7: after any sequence of search_documents calls in a run (between two passes of
\* the loop, or after the last one), sources_used holds every distinct harvested source
\* name exactly once, in order of first appearance, with empty content.
C7_SourcesDeduplicated ==
    (pc \in {"loop", "after"} /\ NoFinishCall) =>
        /\ sources_used = AsSources(RemoveDups(HarvestedNames(observations), {}))
        /\ \A i, j \in 1..Len(sources_used) :
                sources_used[i].source = sources_used[j].source => i = j

\* two successful searches, the first naming a twice in one output, the second naming
\* b and a again: sources_used is a, b
C7_Witness ==
    /\ pc = "after"
    /\ NoFinishCall
    /\ Len(observations) = 2
    /\ HarvestedNames(observations) = <<"a", "a", "b", "a">>
    /\ sources_used = <<[source |-> "a", content |-> ""], [source |-> "b", content |-> ""]>>

----------------------------------------------------------------------------
(* C8 *)

\* the marker _execute_tool appends to an output cut from n characters
TruncationMarker(n) == "\n\n...(truncated, " \o ToString(n) \o " total chars)"

\* C8: for every tool execution of the run, with raw the ToolResult the tool returned
\* and r the result recorded: a successful output of at most max_result_chars
\* characters is unchanged; a longer one, of L characters, is replaced by its first
\* max_result_chars characters followed by the marker reporting L; success and error
\* are those of raw; and a failed result is recorded as it is.
C8_TruncationExact ==
    \A j \in 1..Len(observations) :
        LET raw == ExecEvents[j].out.raw
            r == observations[j].result
            L == Len(raw.output)
        IN  /\ r.success = raw.success
            /\ r.error = raw.error
            /\ (raw.success /\ L <= max_result_chars) => r.output = raw.output
            /\ (raw.success /\ L > max_result_chars) =>
                    r.output = SubSeq(raw.output, 1, max_result_chars) \o TruncationMarker(L)
            /\ ~raw.success => r.output = raw.output

\* a run with one tool output exactly at the limit (kept) and one a character over it
\* (cut to the limit and marked with its length)
C8_Witness ==
    /\ Len(observations) = 2
    /\ \E i, j \in 1..2 :
        /\ ExecEvents[i].out.raw.success
        /\ Len(ExecEvents[i].out.raw.output) = max_result_chars
        /\ observations[i].result.output = ExecEvents[i].out.raw.output
        /\ ExecEvents[j].out.raw.success
        /\ Len(ExecEvents[j].out.raw.output) = max_result_chars + 1
        /\ Len(observations[j].result.output)
                = max_result_chars + Len(TruncationMarker(max_result_chars + 1))

\* a run with a failed result whose output is longer than the limit, recorded as it is
C8_WitnessFailed ==
    \E k \in 1..Len(observations) :
        /\ ~ExecEvents[k].out.raw.success
        /\ Len(ExecEvents[k].out.raw.output) > max_result_chars
        /\ observations[k].result = ExecEvents[k].out.raw

----------------------------------------------------------------------------
(* C9 *)

\* C9 as stated: a response without tool call and with a text T at iteration k ends the
\* run (no tool executed at k, no further oracle call), marks it finished, and run()
\* returns response T, for every text T, with iterations = k and the sources harvested
\* before k.
C9_TextAnswerReturnsEveryText ==
    /\ EndsTheRun("text")
    /\ (ReturnedAfter("text") /\ "text" \in DOMAIN LastLlm.out.dict) =>
            /\ is_finished
            /\ ret.iterations = LastLlm.k
            /\ ret.response = LastLlm.out.dict.text
            /\ ret.sources = AsSources(RemoveDups(HarvestedNames(observations), {}))

\* C9 amended: the same for every non-empty text T; for an empty text the response is
\* "No response generated.".
C9_TextAnswerReturnsText ==
    /\ EndsTheRun("text")
    /\ (ReturnedAfter("text") /\ "text" \in DOMAIN LastLlm.out.dict) =>
            /\ is_finished
            /\ ret.iterations = LastLlm.k
            /\ ret.response = IF LastLlm.out.dict.text = "" THEN "No response generated."
                              ELSE LastLlm.out.dict.text
            /\ ret.sources = AsSources(RemoveDups(HarvestedNames(observations), {}))
            /\ Len(observations) = LastLlm.k - 1
            /\ LastLlm.k = 1 => ret.sources = <<>>

\* a run that harvested a source at iteration 1, got a text answer at iteration 2 and
\* returned it
C9_Witness ==
    /\ ReturnedAfter("text")
    /\ LastLlm.k = 2
    /\ ret.response = "Paris is the capital of France."
    /\ ret.sources = <<[source |-> "a", content |-> ""]>>
    /\ is_finished

----------------------------------------------------------------------------
(* C10 *)

\* C10: in every run that returns, response is a non-empty string: it is final_result,
\* or the literal "No response generated." when final_result is unset or empty.
C10_ResponseNonEmpty ==
    pc = "returned" =>
        /\ ret.response # ""
        /\ ret.response # None
        /\ ret.response = IF final_result \in {None, ""} THEN "No response generated."
                          ELSE final_result

\* a run that ended with an empty final_result (an empty finish answer, text or
\* generated text) and returned the literal
C10_Witness ==
    /\ pc = "returned"
    /\ final_result = ""
    /\ ret.response = "No response generated."

\* a run whose forced answer left final_result unset (generate returned a None text)
C10_WitnessUnset ==
    /\ pc = "returned"
    /\ final_result = None
    /\ Len(GenEvents) = 1
    /\ ret.response = "No response generated."

----------------------------------------------------------------------------
(* C11 *)

\* the tool executions of the run in progress that returned a result
OkExecEvents == SelectSeq(ExecEvents, LAMBDA e : ~e.out.raised)

ChannelNotSet == "Channel ID not set. Cannot perform search."

\* the sources a run returns, computed from its own tool executions and its own last
\* oracle response only
OwnSources ==
    LET harvested == AsSources(RemoveDups(HarvestedNames(
                        [j \in 1..Len(OkExecEvents) |->
                            [tool_name |-> OkExecEvents[j].what,
                             result |-> OkExecEvents[j].out.result]]), {}))
    IN  IF Len(LlmEvents) >= 1 /\ LastLlm.what = "finish"
        THEN FinishSources(harvested, LastLlm.out.dict.tool_call.args)
        ELSE harvested

\* C11: in every run() on an Agent, also one that earlier runs have used, the state the
\* run sees and the value it returns are those of a run on a fresh Agent with fresh
\* tools, that is, they are determined by the run's own arguments and its own oracle
\* and tool calls: the observations are the results of its own tool executions; the
\* prompt of its i-th oracle call carries its own question and its own first i-1
\* results; a search is refused for a missing channel id exactly if the run's own
\* channel id is missing; the finished flag and the final result are set only by its
\* own oracle calls; and the sources it returns are those of its own searches and its
\* own finish call.
C11_RunsAreIndependent ==
    /\ iteration = Len(LlmEvents)
    /\ Len(observations) = Len(OkExecEvents)
    /\ Len(accumulated_context) = Len(OkExecEvents)
    /\ \A j \in 1..Len(observations) :
            /\ observations[j].tool_name = OkExecEvents[j].what
            /\ observations[j].result = OkExecEvents[j].out.result
            /\ accumulated_context[j] =
                    ContextEntry(OkExecEvents[j].what, observations[j].tool_input,
                                 OkExecEvents[j].out.result)
    /\ \A i \in 1..Len(LlmEvents) :
            /\ LlmEvents[i].k = i
            /\ LlmEvents[i].prompt =
                    BuildPrompt(run_query, SubSeq(accumulated_context, 1, i - 1),
                                max_result_chars)
    /\ \A j \in 1..Len(OkExecEvents) :
            OkExecEvents[j].what = "search_documents" =>
                (OkExecEvents[j].out.raw.error = ChannelNotSet <=> Falsy(run_channel))
    /\ is_finished => (Len(LlmEvents) >= 1 /\ LastLlm.what \in {"text", "finish"})
    /\ events = <<>> => (final_result = None /\ sources_used = <<>>)
    /\ messages = <<[role |-> "user", content |-> run_query]>> \/ pc = "idle"
    /\ pc = "returned" =>
            /\ ret.sources = OwnSources
            /\ ret.iterations = Len(LlmEvents)

\* a run on a used Agent (an earlier run left observations, sources, a result, the
\* finished flag and the channel id "chA" in the search tool) that was given no channel
\* id: its search was refused, and it returned no source and its own answer
C11_Witness ==
    /\ reused
    /\ pc = "returned"
    /\ run_channel = ""
    /\ Len(observations) = 1
    /\ observations[1].tool_name = "search_documents"
    /\ observations[1].result.error = ChannelNotSet
    /\ ret.sources = <<>>
    /\ ret.iterations = 2
    /\ ~is_finished

----------------------------------------------------------------------------
(* C12 *)

\* the oracle calls and the completed tool executions in a history of external calls
LlmOf(ev) == SelectSeq(ev, LAMBDA e : e.ev = "call_with_tools")
OkExecOf(ev) == SelectSeq(ev, LAMBDA e : e.ev = "execute" /\ ~e.out.raised)

\* the final results the run with history ev has written to Agent.final_result
ResponsesWrittenBy(ev) ==
    {IF ev[i].ev = "generate" THEN GenerateForcedAnswer(ev[i].out)
     ELSE IF ev[i].what \in {"raise", "none"} THEN "Failed to get response from AI."
     ELSE IF ev[i].what = "text" THEN TextAnswer(ev[i].out.dict)
     ELSE FinishAnswer(ev[i].out.dict.tool_call.args) :
        i \in {j \in 1..Len(ev) :
                    /\ ev[j].ev \in {"generate", "call_with_tools"}
                    /\ ev[j].what \notin {"tool", "malformed"}}}

\* the outputs a search on channel "chA" can give, as executed and as truncated, and
\* the source names found in each
SearchOutputs ==
    LET results == {SearchExecute("chA", o) : o \in SearchFnOutcomes}
    IN  {Truncate(r, n).output :
            r \in results, n \in {MaxResultCharsSmall, MaxResultCharsLarge}}
HarvestOf == [output \in SearchOutputs |-> FindAll(output, 1)]
Harvest(output) ==
    IF output \in SearchOutputs THEN HarvestOf[output] ELSE FindAll(output, 1)

\* the source names the run with history ev has written to Agent.sources_used
SourcesWrittenBy(ev) ==
    LET ok == OkExecOf(ev)
        llm == LlmOf(ev)
    IN  UNION {{m[k] : k \in 1..Len(m)} :
                m \in {Harvest(e.out.result.output) :
                        e \in {ok[j] : j \in {i \in 1..Len(ok) :
                                    /\ ok[i].what = "search_documents"
                                    /\ ok[i].out.result.success}}}}
        \cup UNION {{a[k] : k \in 1..Len(a)} :
                a \in {DictGet(e.out.dict.tool_call.args, "sources_used", <<>>) :
                        e \in {llm[j] : j \in {i \in 1..Len(llm) :
                                    llm[i].what = "finish"}}}}

\* the names in a list of sources
SourceNames(sources) == {sources[i].source : i \in 1..Len(sources)}

\* the locals of the thread with locals t are those of its own run
LocalsAreOwn(t) ==
    LET ok == OkExecOf(t.events)
    IN  /\ t.iteration = Len(LlmOf(t.events))
        /\ Len(t.accumulated_context) = Len(ok)
        /\ \A j \in 1..Len(t.accumulated_context) :
                /\ t.accumulated_context[j].tool = ok[j].what
                /\ t.accumulated_context[j].result \in
                        {ok[j].out.result.output, "Error: " \o ok[j].out.result.error}
        /\ t.pc = "returned" => t.ret.iterations = t.iteration

\* what the thread with locals t returned was written by one of the two runs, which
\* wrote the responses rs and the source names ns
ReturnedIsWritten(t, rs, ns) ==
    t.pc = "returned" =>
        /\ t.ret.response \in rs \cup {"No response generated."}
        /\ t.ret.sources # <<>> => SourceNames(t.ret.sources) \subseteq ns

\* C12: two run() calls on one Agent race on the fields observations, sources_used,
\* final_result and is_finished, which both write, and on nothing else: each run's
\* iteration count and context remain its own, every recorded observation is the
\* result of a tool execution of one of the two runs, and the response and the sources
\* a run returns were written by one of the two runs, not necessarily by itself.
\* (Stated for the thread taking steps; a switch makes the other thread that thread.)
C12_RacesOnSharedFields ==
    /\ LocalsAreOwn(Locals)
    /\ observations # <<>> =>
            LET ok == OkExecOf(events) \o OkExecOf(other.events)
            IN  \A j \in 1..Len(observations) :
                    \E i \in 1..Len(ok) :
                        /\ ok[i].what = observations[j].tool_name
                        /\ ok[i].out.result = observations[j].result
    /\ LET rs == ResponsesWrittenBy(events) \cup ResponsesWrittenBy(other.events)
           ns == SourcesWrittenBy(events) \cup SourcesWrittenBy(other.events)
       IN  /\ ReturnedIsWritten(Locals, rs, ns)
           /\ final_result # None => final_result \in rs

\* a run that made no successful search and no finish call returns sources, which the
\* other run wrote
C12_Witness ==
    /\ pc = "returned"
    /\ SourcesWrittenBy(events) = {}
    /\ ret.sources # <<>>
    /\ SourceNames(ret.sources) \subseteq SourcesWrittenBy(other.events)

\* a run returns a response that only the other run wrote
C12_WitnessResponse ==
    /\ pc = "returned"
    /\ ret.response \notin ResponsesWrittenBy(events) \cup {"No response generated."}
    /\ ret.response \in ResponsesWrittenBy(other.events)

\* a run that harvested a source loses it to the reset at the start of the other run:
\* it returns no source
C12_WitnessLost ==
    /\ pc = "returned"
    /\ SourcesWrittenBy(events) # {}
    /\ ret.sources = <<>>
    /\ other.pc # "idle"

----------------------------------------------------------------------------
(* C13 *)

\* the executions of the search tool whose call bound the argument `query`
SearchCalls ==
    SelectSeq(ExecEvents,
        LAMBDA e : e.what = "search_documents" /\ DOMAIN e.prompt = {"query"})

\* C13: SearchDocumentsTool.execute(query) never raises, whatever the search function
\* does: with no channel id set it returns the failure "Channel ID not set. Cannot
\* perform search." and does not call the search function; otherwise it calls it, and
\* a non-empty error in its result gives a failure with that error, an exception or a
\* malformed result gives a failure, and a result with no source gives a success whose
\* output invites another query.
C13_SearchNeverRaises ==
    \A i \in 1..Len(SearchCalls) :
        LET e == SearchCalls[i]
            fn == e.out.fn
            r == e.out.raw
        IN  /\ ~e.out.raised
            /\ Falsy(tool_channel_id) =>
                    /\ fn = NotCalled
                    /\ r = [success |-> FALSE, output |-> "",
                            error |-> "Channel ID not set. Cannot perform search."]
            /\ ~Falsy(tool_channel_id) =>
                    /\ fn # NotCalled
                    /\ fn.kind = "raise" =>
                            r = [success |-> FALSE, output |-> "",
                                 error |-> "Search failed: " \o fn.message]
                    /\ fn.kind = "malformed" => (~r.success /\ r.output = "")
                    /\ (fn.kind = "result" /\ fn.error \notin {None, ""}) =>
                            r = [success |-> FALSE, output |-> "", error |-> fn.error]
                    /\ (fn.kind = "result" /\ fn.error \in {None, ""}
                            /\ fn.sources = <<>>) =>
                            r = [success |-> TRUE,
                                 output |-> "No relevant documents found for this query. "
                                            \o "Try a different search query.",
                                 error |-> None]
                    /\ (fn.kind = "result" /\ fn.error \in {None, ""}
                            /\ fn.sources # <<>>) => r.success

\* a run in which the search function raised in one search and returned a malformed
\* result in another, and both searches returned a failed result
C13_Witness ==
    /\ Len(SearchCalls) = 2
    /\ SearchCalls[1].out.fn.kind = "raise"
    /\ SearchCalls[2].out.fn.kind = "malformed"
    /\ Len(observations) = 2
    /\ observations[1].result.error = "Search failed: boom"
    /\ ~observations[2].result.success

\* a run with no channel id: the search is refused and the search function not called
C13_WitnessNoChannel ==
    /\ Len(SearchCalls) = 1
    /\ Falsy(tool_channel_id)
    /\ SearchCalls[1].out.fn = NotCalled
    /\ Len(observations) = 1

----------------------------------------------------------------------------
(* C14 *)

\* the Agent was constructed with the built-in tools only
BuiltInTools == registry = RegistryInit(<<SearchTool, FinishTool>>, <<>>)

\* error is non-null only if success is false; a failed result has empty output and a
\* non-empty error; a successful result has error null
WellFormed(r) ==
    /\ r.error # None => ~r.success
    /\ ~r.success => (r.output = "" /\ r.error # None /\ r.error # "")
    /\ r.success => r.error = None

\* C14: in every run of an Agent with the built-in tools, every ToolResult recorded in
\* observations is well formed: error is non-null only if success is false, a failed
\* result has empty output and a non-empty error, and a successful result has error
\* null.
C14_ResultsWellFormed ==
    BuiltInTools => \A j \in 1..Len(observations) : WellFormed(observations[j].result)

\* a run with the built-in tools that recorded a failed result and a successful result
C14_Witness ==
    /\ BuiltInTools
    /\ Len(observations) = 2
    /\ ~observations[1].result.success
    /\ observations[1].result.error # ""
    /\ observations[2].result.success
    /\ observations[2].result.error = None

\* a run with a third-party tool that recorded a failed result with an output
C14_WitnessThirdParty ==
    /\ ~BuiltInTools
    /\ \E j \in 1..Len(observations) : ~WellFormed(observations[j].result)

----------------------------------------------------------------------------
(* C15 *)

\* the last tool named name in the list given at construction, NoTool if there is none
LastNamed(name) ==
    LET hits == {i \in 1..Len(tools) : tools[i].name = name}
    IN  IF hits = {} THEN NoTool
        ELSE tools[CHOOSE i \in hits : \A j \in hits : j <= i]

\* the distinct names in the list given at construction
GivenNames == {tools[i].name : i \in 1..Len(tools)}

\* seq has exactly one entry for each distinct name given, f(entry) being its name
OnePerName(seq, f(_)) ==
    /\ Len(seq) = Cardinality(GivenNames)
    /\ {f(seq[i]) : i \in 1..Len(seq)} = GivenNames

\* C15: for any list of tools given at construction, get(name) returns the last tool
\* of the list with that name, or null if there is none; list_names, get_all and
\* get_all_for_gemini each have exactly one entry per distinct name; and the mapping
\* stays the one construction made, whatever run(), lookups and enumerations have
\* been executed.
C15_RegistryLastWins ==
    /\ registry = RegistryInit(tools, <<>>)
    /\ \A name \in ToolNames : RegistryGet(registry, name) = LastNamed(name)
    /\ OnePerName(ListNames(registry), LAMBDA n : n)
    /\ OnePerName(GetAll(registry), LAMBDA t : t.name)
    /\ OnePerName(GetAllForGemini(registry), LAMBDA g : g.name)
    /\ \A i \in 1..Len(registry) :
            /\ GetAll(registry)[i] = LastNamed(ListNames(registry)[i])
            /\ GetAllForGemini(registry)[i].name = ListNames(registry)[i]
    /\ lookup.op = "get" => lookup.result = LastNamed(lookup.arg)
    /\ lookup.op = "list_names" => OnePerName(lookup.result, LAMBDA n : n)
    /\ lookup.op = "get_all" => OnePerName(lookup.result, LAMBDA t : t.name)
    /\ lookup.op = "get_all_for_gemini" => OnePerName(lookup.result, LAMBDA g : g.name)

\* a registry built from a list with two tools named "custom": after a run that
\* executed a tool, get("custom") returns the second of them
C15_Witness ==
    /\ tools = <<CustomTool, SearchTool, CustomToolB>>
    /\ pc = "returned"
    /\ Len(observations) = 1
    /\ lookup = [op |-> "get", arg |-> "custom", result |-> CustomToolB]
    /\ ListNames(registry) = <<"custom", "search_documents">>

\* an enumeration of a registry built from a list with a repeated name
C15_WitnessEnumeration ==
    /\ Len(tools) = 3
    /\ lookup.op = "list_names"
    /\ Len(lookup.result) = 1

----------------------------------------------------------------------------
(* C16 *)

\* the stored row of the channel
Stored == channels[ExistingChannel]

\* the last call was op on the existing channel
LastCallOnChannel(op) ==
    /\ capacity_ret.op = op
    /\ capacity_ret.channel_id = ExistingChannel

\* C16: after any sequence of update_after_upload and update_after_delete calls on an
\* existing channel, file_count and total_size_bytes are not negative; an upload has
\* added its file count and its size to the stored values; a delete has subtracted
\* them, stopping at zero; and the usage returned has the stored values, with the
\* remaining files and bytes and can_upload computed from them.
C16_CountsNeverNegative ==
    /\ Stored.file_count >= 0
    /\ Stored.total_size_bytes >= 0
    /\ LastCallOnChannel("update_after_upload") =>
            /\ Stored.file_count = capacity_ret.channel.file_count + capacity_ret.file_count
            /\ Stored.total_size_bytes =
                    capacity_ret.channel.total_size_bytes + capacity_ret.file_size
    /\ LastCallOnChannel("update_after_delete") =>
            /\ Stored.file_count =
                    Max0(capacity_ret.channel.file_count - capacity_ret.file_count)
            /\ Stored.total_size_bytes =
                    Max0(capacity_ret.channel.total_size_bytes - capacity_ret.file_size)
    /\ (LastCallOnChannel("update_after_upload")
            \/ LastCallOnChannel("update_after_delete")) =>
            /\ capacity_ret.value.kind = "usage"
            /\ capacity_ret.value.usage.file_count = Stored.file_count
            /\ capacity_ret.value.usage.size_bytes = Stored.total_size_bytes
            /\ capacity_ret.value.usage.remaining_files >= 0
            /\ capacity_ret.value.usage.remaining_bytes >= 0
            /\ capacity_ret.value.usage.remaining_files =
                    Max0(MaxFilesPerChannel - Stored.file_count)
            /\ capacity_ret.value.usage.can_upload =
                    (Stored.file_count < MaxFilesPerChannel
                     /\ Stored.total_size_bytes < MaxChannelSizeMb * 1024 * 1024)

\* a delete of two files of 1 MB from a channel with one file of half a MB: the stored
\* values and the returned usage are zero
C16_Witness ==
    /\ LastCallOnChannel("update_after_delete")
    /\ capacity_ret.channel.file_count = 1
    /\ capacity_ret.file_count = 2
    /\ capacity_ret.channel.total_size_bytes = 524288
    /\ capacity_ret.file_size = 1048576
    /\ Stored = [file_count |-> 0, total_size_bytes |-> 0]
    /\ capacity_ret.value.usage.file_count = 0
    /\ capacity_ret.value.usage.size_bytes = 0

\* an upload that took the channel over its limits: the stored values are the sums
C16_WitnessUpload ==
    /\ LastCallOnChannel("update_after_upload")
    /\ capacity_ret.channel.file_count = 3
    /\ Stored.file_count = 5
    /\ Stored.total_size_bytes = 2097152
    /\ capacity_ret.value.usage.file_usage_percent = 1667
    /\ ~capacity_ret.value.usage.can_upload

----------------------------------------------------------------------------
(* C17 *)

\* C17: when every upload to a channel is validate_upload followed, only on success,
\* by update_after_upload, the channel's file_count never exceeds max_files and its
\* total_size_bytes never exceeds max_size_bytes, also when the uploads interleave.
C17_LimitsEnforced ==
    /\ channels[ExistingChannel].file_count <= MaxFilesPerChannel
    /\ channels[ExistingChannel].total_size_bytes <= MaxChannelSizeMb * 1024 * 1024

----------------------------------------------------------------------------
(* C18 *)

\* the whole days between the channel's last access and the call
DaysSinceAccess == (policy_now - policy_channel.last_accessed_at) \div 24

\* the larger of the file-count and the size percentages is at least 100 * n / d
UsageReaches(n, d) ==
    \/ d * policy_channel.file_count >= n * policy_config.max_files_per_channel
    \/ d * policy_channel.total_size_bytes >=
            n * policy_config.max_channel_size_mb * 1024 * 1024

\* C18: get_status returns one (state, action) pair by a fixed priority order: usage
\* >= 100% gives OVER_LIMIT/WARN_OVER_LIMIT regardless of inactivity; otherwise
\* days_since_access >= inactive_days gives INACTIVE/ARCHIVE; otherwise
\* days_since_access >= idle_warning_days gives IDLE/WARN_IDLE; otherwise usage >= 80%
\* gives ACTIVE/WARN_OVER_LIMIT; otherwise ACTIVE/NONE; usage is the larger of the
\* file-count and the size percentages.
C18_PriorityOrder ==
    policy_status # NoCall =>
        <<policy_status.state, policy_status.action>> =
            IF UsageReaches(1, 1) THEN <<"over_limit", "warn_over_limit">>
            ELSE IF DaysSinceAccess >= policy_config.inactive_days
            THEN <<"inactive", "archive">>
            ELSE IF DaysSinceAccess >= policy_config.idle_warning_days
            THEN <<"idle", "warn_idle">>
            ELSE IF UsageReaches(4, 5) THEN <<"active", "warn_over_limit">>
            ELSE <<"active", "none">>

\* a channel over its file limit and past the inactivity threshold is OVER_LIMIT
C18_Witness ==
    /\ policy_status # NoCall
    /\ policy_channel.file_count > policy_config.max_files_per_channel
    /\ policy_config.inactive_days = 1
    /\ DaysSinceAccess = 2
    /\ policy_status.state = "over_limit"
    /\ policy_status.action = "warn_over_limit"
    /\ policy_status.days_until_inactive = -1

\* a channel at 80% of its size limit that is idle gets the idle warning
C18_WitnessIdle ==
    /\ policy_status # NoCall
    /\ policy_channel.total_size_bytes = 838861
    /\ policy_channel.file_count = 0
    /\ policy_config.idle_warning_days = 1
    /\ policy_config.inactive_days = 2
    /\ DaysSinceAccess = 1
    /\ policy_status.state = "idle"
    /\ policy_status.action = "warn_idle"
    /\ policy_status.usage_percent = 800

\* a channel with 4 of 5 files, accessed today, gets the capacity warning
C18_WitnessApproaching ==
    /\ policy_status # NoCall
    /\ policy_channel.file_count = 4
    /\ policy_config.max_files_per_channel = 5
    /\ policy_channel.total_size_bytes = 0
    /\ DaysSinceAccess = 0
    /\ policy_config.idle_warning_days = 1
    /\ policy_status.state = "active"
    /\ policy_status.action = "warn_over_limit"
    /\ policy_status.message = "Channel is approaching capacity limits (80% used)."

----------------------------------------------------------------------------
(* C19 *)

\* no thread is inside a `with self._lock` block
NoCallInProgress == \A t \in DOMAIN callers : callers[t].pc \in {"outside", "with"}

\* C19: after any interleaving of concurrent record_call invocations, every endpoint has
\* total_calls = success_count + error_count and total_calls equal to the number of
\* record_call invocations made for it since the last reset (no update is lost; the
\* same for the count of Gemini calls), and after reset(), until the next call is
\* recorded, there is no endpoint entry and the count of Gemini calls is zero.
C19_NoLostUpdate ==
    NoCallInProgress =>
        /\ \A e \in DOMAIN endpoints :
                /\ endpoints[e].total_calls =
                        endpoints[e].success_count + endpoints[e].error_count
                /\ e \in DOMAIN recorded
                /\ endpoints[e].total_calls = recorded[e]
        /\ \A e \in DOMAIN recorded : e \in DOMAIN endpoints \/ e = "gemini"
        /\ gemini_api_calls = (IF "gemini" \in DOMAIN recorded THEN recorded["gemini"] ELSE 0)
        /\ recorded = EmptyDict => endpoints = EmptyDict /\ gemini_api_calls = 0

\* three calls for one endpoint made by the threads, two successful: all are counted
C19_Witness ==
    /\ NoCallInProgress
    /\ \A t \in DOMAIN callers : callers[t].pc = "outside"
    /\ "/api/v1/test" \in DOMAIN endpoints
    /\ endpoints["/api/v1/test"] =
            [total_calls |-> 3, success_count |-> 2, error_count |-> 1,
             total_latency_ms |-> 30]

\* a thread preempted between the load and the store of total_calls += 1 while another
\* thread, in record_call for the same endpoint, waits for the lock
C19_WitnessContended ==
    \E t, u \in DOMAIN callers :
        /\ lock = t
        /\ callers[t].pc = "store"
        /\ callers[t].field = "total_calls"
        /\ callers[t].loaded = 1
        /\ callers[u].pc = "with"
        /\ callers[u].op = "record_call"
        /\ callers[u].endpoint = callers[t].endpoint

\* a reset that dropped three recorded calls while another thread waits to record
C19_WitnessReset ==
    /\ \E t \in DOMAIN callers :
            /\ callers[t].op = "reset"
            /\ callers[t].pc = "exit"
            /\ callers[t].loaded = 3
    /\ \E t \in DOMAIN callers : callers[t].op = "record_call" /\ callers[t].pc = "with"
    /\ recorded = EmptyDict
    /\ endpoints = EmptyDict
    /\ gemini_api_calls = 0

----------------------------------------------------------------------------
(* C20 *)

\* the history is the last events, at most 100, in order of occurrence
HistoryIsLatestEvents ==
    /\ Len(job_history) <= 100
    /\ Len(job_history) = (IF fired < 100 THEN fired ELSE 100)
    /\ \A i \in 1..Len(job_history) :
            job_history[i].run_time = "T" \o ToString(fired - Len(job_history) + i)

\* the list returned is the last records of the history
ReturnedIsLatest ==
    history_ret # NoCall =>
        \A i \in 1..Len(history_ret.result) :
            history_ret.result[i] =
                job_history[Len(job_history) - Len(history_ret.result) + i]

\* C20: after any sequence of job execution events the job history holds at most 100
\* records, the most recent events in order of occurrence, and get_job_history(limit)
\* returns at most limit records, the latest ones, for every limit >= 0.
C20_HistoryBounded ==
    /\ HistoryIsLatestEvents
    /\ ReturnedIsLatest
    /\ history_ret # NoCall => Len(history_ret.result) <= history_ret.limit

\* what the code does: the same, except that limit = 0 returns the whole history
C20_HistoryBoundedFromOne ==
    /\ HistoryIsLatestEvents
    /\ ReturnedIsLatest
    /\ history_ret # NoCall =>
            Len(history_ret.result) =
                IF history_ret.limit = 0 \/ history_ret.limit > Len(job_history)
                THEN Len(job_history) ELSE history_ret.limit

----------------------------------------------------------------------------
(* C21 *)

\* the calls of the search function made so far by the run of the thread taking steps
SearchesPerformed ==
    {i \in 1..Len(events) : events[i].ev = "execute" /\ events[i].out.fn # NotCalled}

\* a step of the thread taking steps in which the search function is called
SearchStep ==
    /\ pc = "execute"
    /\ other' = other
    /\ Len(events') = Len(events) + 1
    /\ events'[Len(events')].out.fn # NotCalled

\* C21: with two runs for different channels sharing a SearchDocumentsTool, setting the
\* channel and executing the search are two steps: every search is performed on the
\* channel the tool holds when execute is called, which is the channel of one of the
\* two runs, not necessarily of the run that issued the search.
C21_SearchOnChannelOfTool ==
    [][SearchStep =>
         /\ events'[Len(events')].out.channel = tool_channel_id
         /\ tool_channel_id \in {run_channel, other.run_channel}]_vars

\* a search issued by the run for channel A was performed on channel B
C21_Witness ==
    /\ run_channel = "chA"
    /\ \E i \in SearchesPerformed : events[i].out.channel = "chB"

----------------------------------------------------------------------------
(* C22 *)

\* the tool executions of the run that have returned, in the order they were made
ExecutedCalls == SelectSeq(events, LAMBDA e : e.ev = "execute" /\ ~e.out.raised)

\* the run is over and its last pass of the loop ended it: a finish call, a text
\* answer or an oracle failure
EndedByOracle ==
    /\ pc \in {"after", "return", "returned"}
    /\ \E i \in 1..Len(events) :
            /\ events[i].ev = "call_with_tools"
            /\ events[i].k = iteration
            /\ \A j \in (i + 1)..Len(events) : events[j].ev # "execute"

\* C22: at every point of a run, observations is the sequence, in iteration order, of
\* the non-finish tool calls executed so far: the i-th observation is the call of the
\* i-th pass of the loop with the result its execution returned, appended before the
\* next oracle call; a pass that ends the run adds none, so that at return
\* len(observations) is iterations or iterations - 1.
C22_ObservationsAreExecutions ==
    pc # "idle" =>
        /\ Len(observations) = Len(ExecutedCalls)
        /\ \A i \in 1..Len(observations) :
                /\ ExecutedCalls[i].k = i
                /\ observations[i].tool_name = ExecutedCalls[i].what
                /\ observations[i].tool_name # "finish"
                /\ observations[i].tool_input = ExecutedCalls[i].prompt
                /\ observations[i].result = ExecutedCalls[i].out.result
        /\ pc = "loop" => Len(observations) = iteration
        /\ pc = "act" => Len(observations) = iteration - 1
        /\ EndedByOracle => Len(observations) = iteration - 1
        /\ pc = "returned" =>
                /\ ret.iterations = iteration
                /\ Len(observations) \in {ret.iterations, ret.iterations - 1}

\* a run returned after a failed tool execution and a pass that ended the run
C22_Witness ==
    /\ pc = "returned"
    /\ EndedByOracle
    /\ ret.iterations = 2
    /\ Len(observations) = 1
    /\ ~observations[1].result.success

\* a run returned after as many executed tool calls as passes of the loop
C22_WitnessExhausted ==
    /\ pc = "returned"
    /\ ret.iterations = 2
    /\ Len(observations) = 2

----------------------------------------------------------------------------
(* C23 *)

\* how the run that returned ended: by the branch its last oracle call took, or by the
\* forced answer
EndedBy ==
    IF events = <<>> THEN "none"
    ELSE IF events[Len(events)].ev = "generate" THEN "forced"
    ELSE events[Len(events)].what

\* the sum of the counts of a tool_usage dict
RECURSIVE SumOfCounts(_)
SumOfCounts(usage) ==
    IF DOMAIN usage = {} THEN 0
    ELSE LET name == CHOOSE n \in DOMAIN usage : TRUE
         IN  usage[name] + SumOfCounts([n \in DOMAIN usage \ {name} |-> usage[n]])

\* the summary returned is right for the run that returned
SummaryIsRight ==
    LET summary == lookup.result
    IN  /\ summary.is_finished = (EndedBy \in {"finish", "text"})
        /\ EndedBy \in {"none", "raise", "forced"} => ~summary.is_finished
        /\ SumOfCounts(summary.tool_usage) = Len(observations)
        /\ \A name \in DOMAIN summary.tool_usage :
                summary.tool_usage[name] =
                    Cardinality({i \in 1..Len(observations) :
                                    observations[i].tool_name = name})
        /\ summary.error_count =
                Cardinality({i \in 1..Len(observations) : ~observations[i].result.success})

\* C23: get_execution_summary() called after run() returned reports is_finished true
\* exactly when the run ended with a finish call or a text answer without tool call,
\* false when it ended by an oracle failure or the forced answer; its tool_usage counts
\* sum to len(observations), its error_count is the number of failed observations, and
\* the call changes no state of the agent.
C23_SummaryAfterReturn ==
    [][(pc = "returned" /\ lookup' # lookup /\ lookup'.op = "get_execution_summary")
            => /\ UNCHANGED <<shared, locals, other>>
               /\ SummaryIsRight']_vars

\* a summary taken after a run that an oracle failure ended
C23_Witness ==
    /\ pc = "returned"
    /\ lookup.op = "get_execution_summary"
    /\ EndedBy \in {"none", "raise"}
    /\ ~lookup.result.is_finished
    /\ lookup.result.final_result_length > 0

\* a summary taken after a run that the forced answer ended, with a failed observation
C23_WitnessForced ==
    /\ pc = "returned"
    /\ lookup.op = "get_execution_summary"
    /\ EndedBy = "forced"
    /\ ~lookup.result.is_finished
    /\ lookup.result.error_count = 1
    /\ SumOfCounts(lookup.result.tool_usage) = 2

\* a summary taken after a run that a finish call ended
C23_WitnessFinished ==
    /\ pc = "returned"
    /\ lookup.op = "get_execution_summary"
    /\ EndedBy = "finish"
    /\ lookup.result.is_finished
    /\ SumOfCounts(lookup.result.tool_usage) = 1

----------------------------------------------------------------------------
(* C24 *)

\* the original result text of the i-th executed tool call of the run: the output the
\* tool returned, or its error rendered as run() renders a failure
OriginalText(i) ==
    LET e == ExecutedCalls[i]
    IN  ContextEntry(e.what, e.prompt, e.out.raw).result

\* the marker _call_llm_with_tools appends to a rendered result cut from n characters
PromptMarker(n) == "\n...(truncated, " \o ToString(n) \o " total chars)"

\* text rendered in a prompt is the original whole, or its first max_result_chars
\* characters and one marker reporting the length of the original
RenderedOnce(rendered, original) ==
    \/ rendered = original
    \/ /\ Len(original) > max_result_chars
       /\ rendered \in {Prefix(original, max_result_chars) \o PromptMarker(Len(original)),
                        Prefix(original, max_result_chars)
                            \o TruncationMarker(Len(original))}

\* C24: every prior result rendered into a tool-selection prompt is the complete
\* original result text of the tool, or its first max_result_chars characters followed
\* by one truncation marker whose N is the character count of the original; a result
\* truncated at tool execution is not truncated or counted again in the prompt.
C24_PromptResultsTruncatedOnce ==
    \A j \in 1..Len(events) :
        events[j].ev = "call_with_tools" =>
            \A i \in 1..Len(events[j].prompt.actions) :
                RenderedOnce(events[j].prompt.actions[i].result, OriginalText(i))

----------------------------------------------------------------------------
(* C25 *)

\* every tool execution of the run so far has returned (every oracle call of the model
\* returns or raises into the except of _call_llm_with_tools, which returns None)
EveryCallReturned == \A i \in 1..Len(ExecEvents) : ~ExecEvents[i].out.raised

\* C25: provided every oracle call and every tool execution returns, run() returns,
\* after at most max_iterations passes of the loop and then at most one generate()
\* call, whatever the oracle answers: a run whose calls have all returned is never ended
\* by an exception, and never exceeds the budget.
C25_RunReturnsWithinBudget ==
    EveryCallReturned =>
        /\ pc # "raised"
        /\ iteration <= Max0(max_iterations)
        /\ Len(LlmEvents) <= Max0(max_iterations)
        /\ Len(GenEvents) <= 1
        /\ GenEvents # <<>> => events[Len(events)].ev = "generate"

----------------------------------------------------------------------------
(* C26 *)

\* what the oracle, the search function or generate answered to the i-th external call
\* of a run with the events evs
Answer(evs, i) ==
    IF evs[i].ev = "execute" THEN evs[i].out.fn ELSE evs[i].out

\* the first n external calls of the two runs were answered alike
SameAnswers(n) ==
    \A i \in 1..n : Answer(events, i) = Answer(other.events, i)

\* the run in progress or returned last was given a conversation_history, and the
\* run before it none
SecondRun == pc # "idle" /\ other.pc = "returned"

----------------------------------------------------------------------------
(* C27 *)

\* C27: the sources list run() returns never holds two entries with the same source
\* name, also when the sources_used of a finish call names a source harvested from a
\* search of the run or lists a name twice.
C27_ReturnedSourcesDistinct ==
    pc = "returned" =>
        \A i, j \in 1..Len(ret.sources) :
            i # j => ret.sources[i].source # ret.sources[j].source

----------------------------------------------------------------------------
(* C28 *)

\* the elements of a sequence
Elements(seq) == {seq[i] : i \in 1..Len(seq)}

\* the successful searches of the run: the search function returned sources or none,
\* and the result recorded is a success
SuccessfulSearches ==
    {i \in 1..Len(ExecEvents) :
        /\ ExecEvents[i].what = "search_documents"
        /\ ~ExecEvents[i].out.raised
        /\ ExecEvents[i].out.result.success}

\* C28: for every successful search of a run, the names _extract_sources harvests
\* from its recorded output are the source identifiers the search function returned
\* for the call: none that was not returned, and none missed.
C28_HarvestIsReturned ==
    \A i \in SuccessfulSearches :
        Elements(FindAll(ExecEvents[i].out.result.output, 1))
            = {src.source : src \in Elements(ExecEvents[i].out.fn.sources)}

----------------------------------------------------------------------------
(* C29 *)

\* the keys of the chat responses cached for a channel
ChatKeysOf(channel_id) ==
    {GenerateChatKey(channel_id, q) : q \in CacheQueries} \cap DOMAIN chat_cache

\* C29: invalidate_chat_cache(channel_id) removes the cached chat responses of that
\* channel and no other, returns the number of entries it removed, and leaves the
\* document, channel-info and store caches as they were.
C29_InvalidateOnlyChannel ==
    [][(cache_ret' # cache_ret /\ cache_ret'.op = "invalidate_chat_cache") =>
            /\ cache_ret'.count = Cardinality(ChatKeysOf(cache_ret'.channel))
            /\ DOMAIN chat_cache' = DOMAIN chat_cache \ ChatKeysOf(cache_ret'.channel)
            /\ \A key \in DOMAIN chat_cache' : chat_cache'[key] = chat_cache[key]
            /\ UNCHANGED <<document_cache, channel_cache, store_cache>>]_vars

----------------------------------------------------------------------------
(* C30 *)

\* C30: get_cache_service(), get_scheduler() and get_api_metrics() each return one and
\* the same instance on every call (for the cache: since the last reset_cache_service),
\* also when the first calls are made by several threads at once.
C30_OneInstance ==
    \A g \in DOMAIN handed : Cardinality(handed[g]) <= 1

====
